---- MODULE Spec2Model ----
(***************************************************************************)
(* A model of the in-memory store of highloadcup_round_1 (src/store.rs,    *)
(* src/models.rs): the three entity tables, the two visit indices kept     *)
(* next to each user and each location, the validators, the two queries    *)
(* and the RwLock wrapper.                                                 *)
(*                                                                         *)
(* Rust vectors are 0-based and TLA+ sequences are 1-based: At(seq, i) is  *)
(* the element the code writes seq[i].                                     *)
(***************************************************************************)
EXTENDS Integers, Sequences, FiniteSets, TLC

VARIABLES
    now,        \* Store.now: DateTime fixed at construction
    users,      \* Store.users: Vec<(User, Vec<(usize, usize)>)>
    locations,  \* Store.locations: Vec<(Location, Vec<(usize, usize)>)>
    visits,     \* Store.visits: Vec<Visit>
    ret,        \* what the last Store/StoreWrapper call returned
    lock,       \* StoreWrapper.store: the RwLock's holders and poison flag
    pc,         \* per thread: where it is in its StoreWrapper call
    job         \* per thread: the call a thread is making, and its progress

vars == <<now, users, locations, visits, ret, lock, pc, job>>
storeVars == <<now, users, locations, visits>>

---------------------------------------------------------------------------
(* Bounds of the model.                                                    *)

MaxTime == 2

UserIds == 1 .. 2
LocationIds == 1 .. 2
VisitIds == 1 .. 2
Threads == {"t1", "t2"}

(* Option<T>: None is the empty sequence, Some(x) the one-element one.     *)
None == <<>>
Some(x) == <<x>>
IsSome(o) == o # <<>>
Unwrap(o) == o[1]
Opt(S) == {None} \cup {Some(x) : x \in S}

At(seq, i) == seq[i + 1]

---------------------------------------------------------------------------
(* models.rs                                                               *)

MAX_EMAIL_LEN == 100
MAX_NAME_LEN == 500
MAX_COUNTRY_LEN == 50
MAX_CITY_LEN == 50
MAX_MARK == 5
ALLOWED_GENDER == {"f", "m"}

RECURSIVE Repeat(_, _)
Repeat(c, n) == IF n = 0 THEN "" ELSE c \o Repeat(c, n - 1)

(* String::len(): the number of bytes.  A string of the model is ASCII, or *)
(* is given as the sequence of its bytes.                                  *)
StrLen(s) == Len(s)

(* impl Validate for User: "" for Ok(()), else the field of the error.     *)
ValidUser(u) ==
    IF StrLen(u.email) > MAX_EMAIL_LEN THEN "email"
    ELSE IF StrLen(u.first_name) > MAX_NAME_LEN THEN "first_name"
    ELSE IF StrLen(u.last_name) > MAX_NAME_LEN THEN "last_name"
    ELSE IF u.gender \notin ALLOWED_GENDER THEN "gender"
    ELSE ""

(* impl Validate for Location.                                             *)
ValidLocation(l) ==
    IF StrLen(l.country) > MAX_COUNTRY_LEN THEN "contry"
    ELSE IF StrLen(l.city) > MAX_CITY_LEN THEN "city"
    ELSE ""

(* impl Validate for Visit.                                                *)
ValidVisit(v) ==
    IF v.mark > MAX_MARK THEN "mark" ELSE ""

(* id_to_index, and the index()/user_index()/location_index() methods      *)
(* built on it: ids are dense and start at 1, the vectors at 0.            *)
id_to_index(id) == id - 1

---------------------------------------------------------------------------
(* Results.                                                                *)

Ok == [res |-> "Ok", field |-> ""]
EntryExists == [res |-> "EntryExists", field |-> ""]
EntityNotExists == [res |-> "EntityNotExists", field |-> ""]
UnexpectedIndex == [res |-> "UnexpectedIndex", field |-> ""]
LockError == [res |-> "LockError", field |-> ""]
Panic == [res |-> "Panic", field |-> ""]
InvalidEntity(f) == [res |-> "InvalidEntity", field |-> f]

(* The store as a value: what &self / &mut self denotes.                   *)
Self == [now |-> now, users |-> users, locations |-> locations, visits |-> visits]
Out(s, r) == [store |-> s, result |-> r]

---------------------------------------------------------------------------
(* chrono, reduced to what the store uses of it.  A DateTime is a year and *)
(* a part of the year: 0 (1 January), 1 (29 February, leap years only),    *)
(* 2 (1 March); a Timestamp counts the parts since the epoch, three to a   *)
(* year.  with_year is partial exactly as chrono's: 29 February has no     *)
(* image in a year that is not a leap year.                                *)

IsLeap(y) == y % 4 = 0
from_timestamp(ts) == [year |-> ts \div 3, part |-> ts % 3]
timestamp(dt) == dt.year * 3 + dt.part
with_year(dt, y) ==
    IF dt.part = 1 /\ ~IsLeap(y) THEN None ELSE Some([dt EXCEPT !.year = y])

---------------------------------------------------------------------------
(* Helpers for Vec.                                                        *)

SetMin(S) == CHOOSE x \in S : \A y \in S : x <= y

(* Iterator::position: the 0-based index of the first element with P.      *)
Position(seq, P(_)) ==
    LET hits == {i \in 1 .. Len(seq) : P(seq[i])}
    IN  IF hits = {} THEN None ELSE Some(SetMin(hits) - 1)

(* Vec::insert(position, x) and Vec::remove(position), 0-based.            *)
VecInsert(seq, position, x) ==
    SubSeq(seq, 1, position) \o <<x>> \o SubSeq(seq, position + 1, Len(seq))
VecRemove(seq, position) ==
    SubSeq(seq, 1, position) \o SubSeq(seq, position + 2, Len(seq))

(* Iterator::filter, keeping the order.                                    *)
SeqFilter(seq, P(_)) ==
    LET F[i \in 0 .. Len(seq)] ==
            IF i = 0 THEN <<>>
            ELSE IF P(seq[i]) THEN Append(F[i - 1], seq[i]) ELSE F[i - 1]
    IN  F[Len(seq)]

SeqMap(seq, F(_)) == [i \in 1 .. Len(seq) |-> F(seq[i])]

RECURSIVE SeqSum(_)
SeqSum(seq) == IF seq = <<>> THEN 0 ELSE Head(seq) + SeqSum(Tail(seq))

(* The two halves of a table entry (entity, bucket): .0 and .1             *)
Entity(entry) == entry[1]
Bucket(entry) == entry[2]

---------------------------------------------------------------------------
(* impl Store: users                                                       *)

get_user(s, id) ==
    LET user_index == id_to_index(id)
    IN  IF Len(s.users) > user_index
        THEN [res |-> "Ok", val |-> Entity(At(s.users, user_index))]
        ELSE [res |-> "EntityNotExists", val |-> None]

(* A slip: the user is validated before its id is looked up.               *)
add_user_validated_first(s, user) ==
    LET user_index == id_to_index(user.id)
    IN  IF ValidUser(user) # "" THEN Out(s, InvalidEntity(ValidUser(user)))
        ELSE IF Len(s.users) > user_index THEN Out(s, EntryExists)
        ELSE IF Len(s.users) # user_index THEN Out(s, UnexpectedIndex)
        ELSE Out([s EXCEPT !.users = Append(@, <<user, <<>>>>)], Ok)

(* A slip: an add under a taken id overwrites the stored user before it    *)
(* is refused.                                                             *)
add_user_overwriting(s, user) ==
    LET user_index == id_to_index(user.id)
    IN  IF Len(s.users) > user_index
        THEN Out([s EXCEPT !.users[user_index + 1][1] = user], EntryExists)
        ELSE IF Len(s.users) # user_index THEN Out(s, UnexpectedIndex)
        ELSE IF ValidUser(user) # "" THEN Out(s, InvalidEntity(ValidUser(user)))
        ELSE Out([s EXCEPT !.users = Append(@, <<user, <<>>>>)], Ok)

(* A slip: a user under an id beyond the next free one is pushed too.      *)
add_user_at_any_index(s, user) ==
    LET user_index == id_to_index(user.id)
    IN  IF Len(s.users) > user_index THEN Out(s, EntryExists)
        ELSE IF ValidUser(user) # "" THEN Out(s, InvalidEntity(ValidUser(user)))
        ELSE Out([s EXCEPT !.users = Append(@, <<user, <<>>>>)], Ok)

add_user(s, user) ==
    LET user_index == id_to_index(user.id)
    IN  IF Len(s.users) > user_index THEN Out(s, EntryExists)
        ELSE IF Len(s.users) # user_index THEN Out(s, UnexpectedIndex)
        ELSE IF ValidUser(user) # "" THEN Out(s, InvalidEntity(ValidUser(user)))
        ELSE Out([s EXCEPT !.users = Append(@, <<user, <<>>>>)], Ok)

(* The fields of a UserData that are present overwrite the user's.         *)
PatchUser(user, user_data) ==
    [id |-> user.id,
     email |-> IF IsSome(user_data.email) THEN Unwrap(user_data.email) ELSE user.email,
     first_name |-> IF IsSome(user_data.first_name) THEN Unwrap(user_data.first_name)
                    ELSE user.first_name,
     last_name |-> IF IsSome(user_data.last_name) THEN Unwrap(user_data.last_name)
                   ELSE user.last_name,
     gender |-> IF IsSome(user_data.gender) THEN Unwrap(user_data.gender) ELSE user.gender,
     birth_date |-> IF IsSome(user_data.birth_date) THEN Unwrap(user_data.birth_date)
                    ELSE user.birth_date]

(* A slip: the stored user is validated, not the patched one.              *)
update_user_validating_the_stored(s, id, user_data) ==
    LET user_index == id_to_index(id)
    IN  IF Len(s.users) < user_index THEN Out(s, EntityNotExists)
        ELSE IF user_index >= Len(s.users) THEN Out(s, Panic)
        ELSE LET original_user == Entity(At(s.users, user_index))
                 updated_user == PatchUser(original_user, user_data)
             IN  IF ValidUser(original_user) # ""
                 THEN Out(s, InvalidEntity(ValidUser(original_user)))
                 ELSE Out([s EXCEPT !.users[user_index + 1][1] = updated_user], Ok)

(* A slip: the patched user is stored before it is validated.              *)
update_user_stored_first(s, id, user_data) ==
    LET user_index == id_to_index(id)
    IN  IF Len(s.users) < user_index THEN Out(s, EntityNotExists)
        ELSE IF user_index >= Len(s.users) THEN Out(s, Panic)
        ELSE LET updated_user == PatchUser(Entity(At(s.users, user_index)), user_data)
                 stored == [s EXCEPT !.users[user_index + 1][1] = updated_user]
             IN  IF ValidUser(updated_user) # ""
                 THEN Out(stored, InvalidEntity(ValidUser(updated_user)))
                 ELSE Out(stored, Ok)

(* The guard is len < index, so index = len passes it and self.users[index]*)
(* then panics (index out of bounds) before anything is written.           *)
update_user(s, id, user_data) ==
    LET user_index == id_to_index(id)
    IN  IF Len(s.users) < user_index THEN Out(s, EntityNotExists)
        ELSE IF user_index >= Len(s.users) THEN Out(s, Panic)
        ELSE LET updated_user == PatchUser(Entity(At(s.users, user_index)), user_data)
             IN  IF ValidUser(updated_user) # ""
                 THEN Out(s, InvalidEntity(ValidUser(updated_user)))
                 ELSE Out([s EXCEPT !.users[user_index + 1][1] = updated_user], Ok)

---------------------------------------------------------------------------
(* impl Store: locations                                                   *)

(* A slip: the entry before the one asked for is returned.                 *)
get_location_previous(s, id) ==
    LET location_index == id_to_index(id)
    IN  IF Len(s.locations) > location_index
        THEN [res |-> "Ok",
              val |-> Entity(At(s.locations,
                                IF location_index > 0 THEN location_index - 1 ELSE 0))]
        ELSE [res |-> "EntityNotExists", val |-> None]

get_location(s, id) ==
    LET location_index == id_to_index(id)
    IN  IF Len(s.locations) > location_index
        THEN [res |-> "Ok", val |-> Entity(At(s.locations, location_index))]
        ELSE [res |-> "EntityNotExists", val |-> None]

(* A slip: a location is appended whatever id beyond the table it has.     *)
add_location_at_any_index(s, location) ==
    LET location_index == id_to_index(location.id)
    IN  IF Len(s.locations) > location_index THEN Out(s, EntryExists)
        ELSE IF ValidLocation(location) # ""
        THEN Out(s, InvalidEntity(ValidLocation(location)))
        ELSE Out([s EXCEPT !.locations = Append(@, <<location, <<>>>>)], Ok)

add_location(s, location) ==
    LET location_index == id_to_index(location.id)
    IN  IF Len(s.locations) > location_index THEN Out(s, EntryExists)
        ELSE IF Len(s.locations) # location_index THEN Out(s, UnexpectedIndex)
        ELSE IF ValidLocation(location) # ""
        THEN Out(s, InvalidEntity(ValidLocation(location)))
        ELSE Out([s EXCEPT !.locations = Append(@, <<location, <<>>>>)], Ok)

(* A slip: the city of the patch lands in the country.                     *)
PatchLocation_city_into_country(location, location_data) ==
    [id |-> location.id,
     distance |-> IF IsSome(location_data.distance) THEN Unwrap(location_data.distance)
                  ELSE location.distance,
     place |-> IF IsSome(location_data.place) THEN Unwrap(location_data.place)
               ELSE location.place,
     country |-> IF IsSome(location_data.city) THEN Unwrap(location_data.city)
                 ELSE location.country,
     city |-> location.city]

PatchLocation(location, location_data) ==
    [id |-> location.id,
     distance |-> IF IsSome(location_data.distance) THEN Unwrap(location_data.distance)
                  ELSE location.distance,
     place |-> IF IsSome(location_data.place) THEN Unwrap(location_data.place)
               ELSE location.place,
     country |-> IF IsSome(location_data.country) THEN Unwrap(location_data.country)
                 ELSE location.country,
     city |-> IF IsSome(location_data.city) THEN Unwrap(location_data.city)
              ELSE location.city]

(* A slip: the whole entry is replaced, the location with a new bucket.    *)
update_location_with_a_new_bucket(s, id, location_data) ==
    LET location_index == id_to_index(id)
    IN  IF Len(s.locations) < location_index THEN Out(s, EntityNotExists)
        ELSE IF location_index >= Len(s.locations) THEN Out(s, Panic)
        ELSE LET updated_location ==
                     PatchLocation(Entity(At(s.locations, location_index)), location_data)
             IN  IF ValidLocation(updated_location) # ""
                 THEN Out(s, InvalidEntity(ValidLocation(updated_location)))
                 ELSE Out([s EXCEPT !.locations[location_index + 1] =
                                        <<updated_location, <<>>>>], Ok)

update_location(s, id, location_data) ==
    LET location_index == id_to_index(id)
    IN  IF Len(s.locations) < location_index THEN Out(s, EntityNotExists)
        ELSE IF location_index >= Len(s.locations) THEN Out(s, Panic)
        ELSE LET updated_location ==
                     PatchLocation(Entity(At(s.locations, location_index)), location_data)
             IN  IF ValidLocation(updated_location) # ""
                 THEN Out(s, InvalidEntity(ValidLocation(updated_location)))
                 ELSE Out([s EXCEPT !.locations[location_index + 1][1] = updated_location],
                          Ok)


---------------------------------------------------------------------------
(* impl Store: visits and the two indices                                  *)

get_visit(s, visit_id) ==
    LET visit_index == id_to_index(visit_id)
    IN  IF Len(s.visits) > visit_index
        THEN [res |-> "Ok", val |-> At(s.visits, visit_index)]
        ELSE [res |-> "EntityNotExists", val |-> None]

(* A slip: the entry goes before the first entry that is not earlier.      *)
add_visit_to_user_before_equal(s, visit, location) ==
    LET user_visits == Bucket(At(s.users, id_to_index(visit.user)))
        Later(pair) == visit.visited_at <= At(s.visits, pair[1]).visited_at
        position == Position(user_visits, Later)
        pair == <<id_to_index(visit.id), id_to_index(location.id)>>
    IN  [s EXCEPT !.users[id_to_index(visit.user) + 1][2] =
            IF IsSome(position) THEN VecInsert(@, Unwrap(position), pair)
            ELSE Append(@, pair)]

(* Insert (visit, location) into the bucket of visit.user before the first *)
(* entry whose visit is strictly later, or at the end.                     *)
add_visit_to_user(s, visit, location) ==
    LET user_visits == Bucket(At(s.users, id_to_index(visit.user)))
        Later(pair) == visit.visited_at < At(s.visits, pair[1]).visited_at
        position == Position(user_visits, Later)
        pair == <<id_to_index(visit.id), id_to_index(location.id)>>
    IN  [s EXCEPT !.users[id_to_index(visit.user) + 1][2] =
            IF IsSome(position) THEN VecInsert(@, Unwrap(position), pair)
            ELSE Append(@, pair)]

(* A slip: the entry is looked up by its second half, the location index.  *)
remove_visit_from_user_by_location(s, visit) ==
    LET user_visits == Bucket(At(s.users, id_to_index(visit.user)))
        Same(pair) == id_to_index(visit.id) = pair[2]
        position == Position(user_visits, Same)
    IN  IF IsSome(position)
        THEN [s EXCEPT !.users[id_to_index(visit.user) + 1][2] =
                 VecRemove(@, Unwrap(position))]
        ELSE s

(* Remove the entry of visit from the bucket of visit.user; when there is  *)
(* none the code logs an error and goes on.                                *)
remove_visit_from_user(s, visit) ==
    LET user_visits == Bucket(At(s.users, id_to_index(visit.user)))
        Same(pair) == id_to_index(visit.id) = pair[1]
        position == Position(user_visits, Same)
    IN  IF IsSome(position)
        THEN [s EXCEPT !.users[id_to_index(visit.user) + 1][2] =
                 VecRemove(@, Unwrap(position))]
        ELSE s

(* A slip: the entry caches the index of the place, not of the person.     *)
add_visit_to_location_caching_place(s, visit, user) ==
    [s EXCEPT !.locations[id_to_index(visit.location) + 1][2] =
        Append(@, <<id_to_index(visit.id), id_to_index(visit.location)>>)]

add_visit_to_location(s, visit, user) ==
    [s EXCEPT !.locations[id_to_index(visit.location) + 1][2] =
        Append(@, <<id_to_index(visit.id), id_to_index(user.id)>>)]

(* A slip: the old entry is left where it is.                              *)
remove_visit_from_location_skipped(s, visit) == s

remove_visit_from_location(s, visit) ==
    LET location_visits == Bucket(At(s.locations, id_to_index(visit.location)))
        Same(pair) == id_to_index(visit.id) = pair[1]
        position == Position(location_visits, Same)
    IN  IF IsSome(position)
        THEN [s EXCEPT !.locations[id_to_index(visit.location) + 1][2] =
                 VecRemove(@, Unwrap(position))]
        ELSE s

(* Result<User, StoreError>: res is "Ok" or the InvalidEntity error.       *)
get_visit_user(s, user_id) ==
    LET user_index == id_to_index(user_id)
    IN  IF Len(s.users) <= user_index
        THEN [res |-> InvalidEntity("user"), val |-> None]
        ELSE [res |-> Ok, val |-> Entity(At(s.users, user_index))]

get_visit_location(s, location_id) ==
    LET location_index == id_to_index(location_id)
    IN  IF Len(s.locations) <= location_index
        THEN [res |-> InvalidEntity("location"), val |-> None]
        ELSE [res |-> Ok, val |-> Entity(At(s.locations, location_index))]

(* A slip: the visit is pushed before its foreign keys are resolved.       *)
add_visit_pushed_first(s, visit) ==
    LET visit_index == id_to_index(visit.id)
        user == get_visit_user(s, visit.user)
        location == get_visit_location(s, visit.location)
        pushed == [s EXCEPT !.visits = Append(@, visit)]
    IN  IF Len(s.visits) > visit_index THEN Out(s, EntryExists)
        ELSE IF Len(s.visits) # visit_index THEN Out(s, UnexpectedIndex)
        ELSE IF ValidVisit(visit) # "" THEN Out(s, InvalidEntity(ValidVisit(visit)))
        ELSE IF user.res # Ok THEN Out(pushed, user.res)
        ELSE IF location.res # Ok THEN Out(pushed, location.res)
        ELSE LET s1 == add_visit_to_user(s, visit, location.val)
                 s2 == add_visit_to_location(s1, visit, user.val)
             IN  Out([s2 EXCEPT !.visits = Append(@, visit)], Ok)

(* A slip: the foreign keys are resolved before the visit is validated.    *)
add_visit_resolved_first(s, visit) ==
    LET visit_index == id_to_index(visit.id)
        user == get_visit_user(s, visit.user)
        location == get_visit_location(s, visit.location)
    IN  IF Len(s.visits) > visit_index THEN Out(s, EntryExists)
        ELSE IF Len(s.visits) # visit_index THEN Out(s, UnexpectedIndex)
        ELSE IF user.res # Ok THEN Out(s, user.res)
        ELSE IF location.res # Ok THEN Out(s, location.res)
        ELSE IF ValidVisit(visit) # "" THEN Out(s, InvalidEntity(ValidVisit(visit)))
        ELSE LET s1 == add_visit_to_user(s, visit, location.val)
                 s2 == add_visit_to_location(s1, visit, user.val)
             IN  Out([s2 EXCEPT !.visits = Append(@, visit)], Ok)

add_visit(s, visit) ==
    LET visit_index == id_to_index(visit.id)
        user == get_visit_user(s, visit.user)
        location == get_visit_location(s, visit.location)
    IN  IF Len(s.visits) > visit_index THEN Out(s, EntryExists)
        ELSE IF Len(s.visits) # visit_index THEN Out(s, UnexpectedIndex)
        ELSE IF ValidVisit(visit) # "" THEN Out(s, InvalidEntity(ValidVisit(visit)))
        ELSE IF user.res # Ok THEN Out(s, user.res)
        ELSE IF location.res # Ok THEN Out(s, location.res)
        ELSE LET s1 == add_visit_to_user(s, visit, location.val)
                 s2 == add_visit_to_location(s1, visit, user.val)
             IN  Out([s2 EXCEPT !.visits = Append(@, visit)], Ok)

PatchVisit(visit, visit_data) ==
    [id |-> visit.id,
     location |-> IF IsSome(visit_data.location) THEN Unwrap(visit_data.location)
                  ELSE visit.location,
     user |-> IF IsSome(visit_data.user) THEN Unwrap(visit_data.user) ELSE visit.user,
     visited_at |-> IF IsSome(visit_data.visited_at) THEN Unwrap(visit_data.visited_at)
                    ELSE visit.visited_at,
     mark |-> IF IsSome(visit_data.mark) THEN Unwrap(visit_data.mark) ELSE visit.mark]

(* A slip: a new visited_at alone does not move the entry.                 *)
UserBucketChanges_without_visited_at(original_visit, updated_visit) ==
    \/ original_visit.user # updated_visit.user
    \/ original_visit.location # updated_visit.location

(* A slip: a new location alone does not refresh the entry.                *)
UserBucketChanges_without_location(original_visit, updated_visit) ==
    \/ original_visit.user # updated_visit.user
    \/ original_visit.visited_at # updated_visit.visited_at

(* The person bucket is rewritten when the user, visited_at or the         *)
(* location changed (lines 362-368), the place bucket when the location or *)
(* the user changed (lines 369-373).                                       *)
UserBucketChanges(original_visit, updated_visit) ==
    \/ original_visit.user # updated_visit.user
    \/ original_visit.visited_at # updated_visit.visited_at
    \/ original_visit.location # updated_visit.location

(* A slip: a new user alone does not refresh the entry.                    *)
LocationBucketChanges_without_user(original_visit, updated_visit) ==
    original_visit.location # updated_visit.location

(* A slip: a new visited_at refreshes the entry of the place bucket too.   *)
LocationBucketChanges_with_visited_at(original_visit, updated_visit) ==
    \/ original_visit.location # updated_visit.location
    \/ original_visit.user # updated_visit.user
    \/ original_visit.visited_at # updated_visit.visited_at

LocationBucketChanges(original_visit, updated_visit) ==
    \/ original_visit.location # updated_visit.location
    \/ original_visit.user # updated_visit.user

(* A slip: the patched visit is taken out of the table.                    *)
ReplaceVisit_removing(s, visit_index, updated_visit) ==
    [s EXCEPT !.visits = VecRemove(@, visit_index)]

(* The steps update_visit takes once every check has passed.               *)
ReplaceVisit(s, visit_index, updated_visit) ==
    [s EXCEPT !.visits[visit_index + 1] = updated_visit]

ReindexUser(s, original_visit, updated_visit, location) ==
    IF UserBucketChanges(original_visit, updated_visit)
    THEN add_visit_to_user(remove_visit_from_user(s, original_visit),
                           updated_visit, location)
    ELSE s

ReindexLocation(s, original_visit, updated_visit, user) ==
    IF LocationBucketChanges(original_visit, updated_visit)
    THEN add_visit_to_location(remove_visit_from_location(s, original_visit),
                               updated_visit, user)
    ELSE s

(* A slip: the stored visit is replaced before the patched visit is        *)
(* validated and its foreign keys resolved.                                *)
update_visit_replaced_first(s, id, visit_data) ==
    LET visit_index == id_to_index(id)
    IN  IF Len(s.visits) <= visit_index THEN Out(s, EntityNotExists)
        ELSE
        LET original_visit == At(s.visits, visit_index)
            updated_visit == PatchVisit(original_visit, visit_data)
            location == get_visit_location(s, updated_visit.location)
            user == get_visit_user(s, updated_visit.user)
            s1 == ReplaceVisit(s, visit_index, updated_visit)
        IN  IF ValidVisit(updated_visit) # ""
            THEN Out(s1, InvalidEntity(ValidVisit(updated_visit)))
            ELSE IF location.res # Ok THEN Out(s1, location.res)
            ELSE IF user.res # Ok THEN Out(s1, user.res)
            ELSE LET s2 == ReindexUser(s1, original_visit, updated_visit, location.val)
                     s3 == ReindexLocation(s2, original_visit, updated_visit, user.val)
                 IN  Out(s3, Ok)

update_visit(s, id, visit_data) ==
    LET visit_index == id_to_index(id)
    IN  IF Len(s.visits) <= visit_index THEN Out(s, EntityNotExists)
        ELSE
        LET original_visit == At(s.visits, visit_index)
            updated_visit == PatchVisit(original_visit, visit_data)
            location == get_visit_location(s, updated_visit.location)
            user == get_visit_user(s, updated_visit.user)
        IN  IF ValidVisit(updated_visit) # ""
            THEN Out(s, InvalidEntity(ValidVisit(updated_visit)))
            ELSE IF location.res # Ok THEN Out(s, location.res)
            ELSE IF user.res # Ok THEN Out(s, user.res)
            ELSE LET s1 == ReplaceVisit(s, visit_index, updated_visit)
                     s2 == ReindexUser(s1, original_visit, updated_visit, location.val)
                     s3 == ReindexLocation(s2, original_visit, updated_visit, user.val)
                 IN  Out(s3, Ok)

---------------------------------------------------------------------------
(* impl Store: the two queries                                             *)

(* Lines 387-397: the (visit, location) pairs of the bucket that pass the  *)
(* filters, in the bucket's order.                                         *)
FilteredUserVisits(s, user_index, options) ==
    LET Resolve(pair) == <<At(s.visits, pair[1]), Entity(At(s.locations, pair[2]))>>
        Keep(vl) ==
            /\ IsSome(options.from_date) => Unwrap(options.from_date) < vl[1].visited_at
            /\ IsSome(options.to_date) => vl[1].visited_at < Unwrap(options.to_date)
            /\ IsSome(options.country) => vl[2].country = Unwrap(options.country)
            /\ IsSome(options.to_distance) => vl[2].distance < Unwrap(options.to_distance)
    IN  SeqFilter(SeqMap(Bucket(At(s.users, user_index)), Resolve), Keep)

(* A slip: an empty listing is reported as a missing entity.               *)
get_user_visits_empty_is_missing(s, user_id, options) ==
    LET user_index == id_to_index(user_id)
        Project(vl) ==
            [mark |-> vl[1].mark, place |-> vl[2].place, visited_at |-> vl[1].visited_at]
    IN  IF Len(s.users) <= user_index
        THEN [res |-> "EntityNotExists", val |-> None]
        ELSE IF FilteredUserVisits(s, user_index, options) = <<>>
        THEN [res |-> "EntityNotExists", val |-> None]
        ELSE [res |-> "Ok",
              val |-> Some(SeqMap(FilteredUserVisits(s, user_index, options), Project))]

get_user_visits(s, user_id, options) ==
    LET user_index == id_to_index(user_id)
        Project(vl) ==
            [mark |-> vl[1].mark, place |-> vl[2].place, visited_at |-> vl[1].visited_at]
    IN  IF Len(s.users) <= user_index
        THEN [res |-> "EntityNotExists", val |-> None]
        ELSE [res |-> "Ok",
              val |-> Some(SeqMap(FilteredUserVisits(s, user_index, options), Project))]

(* Lines 427-434: an age becomes the timestamp of now moved back by that   *)
(* many years, or None when with_year has no such date.                    *)
AgeCutoff(s, age) ==
    IF IsSome(age)
    THEN LET t == with_year(s.now, s.now.year - Unwrap(age))
         IN  IF IsSome(t) THEN Some(timestamp(Unwrap(t))) ELSE None
    ELSE None

(* Lines 437-448: the (visit, user) pairs of the bucket that pass.         *)
FilteredLocationVisits(s, location_index, options) ==
    LET from_age == AgeCutoff(s, options.from_age)
        to_age == AgeCutoff(s, options.to_age)
        Resolve(pair) == <<At(s.visits, pair[1]), Entity(At(s.users, pair[2]))>>
        Keep(vu) ==
            /\ IsSome(options.from_date) => vu[1].visited_at > Unwrap(options.from_date)
            /\ IsSome(options.to_date) => vu[1].visited_at < Unwrap(options.to_date)
            /\ IsSome(options.gender) => vu[2].gender = Unwrap(options.gender)
            /\ IsSome(from_age) => vu[2].birth_date < Unwrap(from_age)
            /\ IsSome(to_age) => vu[2].birth_date > Unwrap(to_age)
    IN  SeqFilter(SeqMap(Bucket(At(s.locations, location_index)), Resolve), Keep)

(* A slip: the mean is cut after the fifth digit.                          *)
AvgUnits_truncated(sum_mark, count_mark) == (sum_mark * 100000) \div count_mark

(* round(x * 10^5) / 10^5 of x = sum / count, halves away from zero, as    *)
(* the count of 10^-5 units: AvgUnits = 350000 is the f64 3.5.             *)
AvgUnits(sum_mark, count_mark) ==
    (2 * sum_mark * 100000 + count_mark) \div (2 * count_mark)

(* The width of the sum of the marks: fold((0u64, 0u64), ..).              *)
SUM_BITS == 64

(* An unsigned integer of the given width.  No integer of the model has    *)
(* more than 31 bits, so one of 31 bits or more holds it as it is.         *)
Wrapped(x, bits) == IF bits >= 31 THEN x ELSE x % (2 ^ bits)

(* A slip: the marks are summed in their own type, u8.                     *)
SumMarks_u8(marks) == Wrapped(SeqSum(marks), 8)

(* The sum of the fold, in u64.                                            *)
SumMarks(marks) == Wrapped(SeqSum(marks), SUM_BITS)

(* A slip: no matching visit is reported as a missing entity.              *)
get_location_avg_empty_is_missing(s, location_id, options) ==
    LET location_index == id_to_index(location_id)
    IN  IF Len(s.locations) <= location_index
        THEN [res |-> "EntityNotExists", val |-> None]
        ELSE
        LET filtered_location_visits ==
                FilteredLocationVisits(s, location_index, options)
            Mark(vu) == vu[1].mark
            sum_mark == SumMarks(SeqMap(filtered_location_visits, Mark))
            count_mark == Len(filtered_location_visits)
        IN  IF count_mark = 0 THEN [res |-> "EntityNotExists", val |-> None]
            ELSE [res |-> "Ok", val |-> Some(AvgUnits(sum_mark, count_mark))]

get_location_avg(s, location_id, options) ==
    LET location_index == id_to_index(location_id)
    IN  IF Len(s.locations) <= location_index
        THEN [res |-> "EntityNotExists", val |-> None]
        ELSE
        LET filtered_location_visits ==
                FilteredLocationVisits(s, location_index, options)
            Mark(vu) == vu[1].mark
            sum_mark == SumMarks(SeqMap(filtered_location_visits, Mark))
            count_mark == Len(filtered_location_visits)
        IN  IF count_mark = 0 THEN [res |-> "Ok", val |-> Some(0)]
            ELSE [res |-> "Ok", val |-> Some(AvgUnits(sum_mark, count_mark))]

---------------------------------------------------------------------------
(* Store::new and the calls on a Store its owner makes.                    *)

(* The timestamps Store::new is given: 1 January of year 40.               *)
NowInputs == {120}

MaxUserId == CHOOSE n \in UserIds : \A m \in UserIds : m <= n
MaxLocationId == CHOOSE n \in LocationIds : \A m \in LocationIds : m <= n
MaxVisitId == CHOOSE n \in VisitIds : \A m \in VisitIds : m <= n

Unlocked == [readers |-> {}, writer |-> None, poisoned |-> FALSE]

Init ==
    /\ now \in {from_timestamp(ts) : ts \in NowInputs}
    /\ users = <<>>
    /\ locations = <<>>
    /\ visits = <<>>
    /\ ret = [op |-> "new", res |-> "Ok", field |-> ""]
    /\ lock = Unlocked
    /\ pc = [t \in Threads |-> "idle"]
    /\ job = [t \in Threads |-> None]

(* The tables of the model hold at most this many entries.                 *)
WithinBounds(s) ==
    /\ Len(s.users) <= MaxUserId
    /\ Len(s.locations) <= MaxLocationId
    /\ Len(s.visits) <= MaxVisitId

(* A call on the store returns: the store is as the call left it.          *)
Returns(op, out) ==
    /\ WithinBounds(out.store)
    /\ now' = out.store.now
    /\ users' = out.store.users
    /\ locations' = out.store.locations
    /\ visits' = out.store.visits
    /\ ret' = [op |-> op, res |-> out.result.res, field |-> out.result.field]
    /\ UNCHANGED <<lock, pc, job>>

AddUser(user) == Returns("add_user", add_user(Self, user))
UpdateUser(id, user_data) == Returns("update_user", update_user(Self, id, user_data))
AddLocation(location) == Returns("add_location", add_location(Self, location))
UpdateLocation(id, location_data) ==
    Returns("update_location", update_location(Self, id, location_data))
AddVisit(visit) == Returns("add_visit", add_visit(Self, visit))
UpdateVisit(id, visit_data) == Returns("update_visit", update_visit(Self, id, visit_data))

---------------------------------------------------------------------------
(* The arguments the callers pass.                                         *)

User(id, gender, birth_date) ==
    [id |-> id, email |-> "v@mail.com", first_name |-> "Vasia", last_name |-> "Pupkin",
     gender |-> gender, birth_date |-> birth_date]
UserData(gender, birth_date) ==
    [email |-> None, first_name |-> None, last_name |-> None,
     gender |-> gender, birth_date |-> birth_date]
Location(id, place, country, city, distance) ==
    [id |-> id, place |-> place, country |-> country, city |-> city, distance |-> distance]
LocationData(place, country, city, distance) ==
    [place |-> place, country |-> country, city |-> city, distance |-> distance]
Visit(id, location, user, visited_at, mark) ==
    [id |-> id, location |-> location, user |-> user, visited_at |-> visited_at,
     mark |-> mark]
VisitData(location, user, visited_at, mark) ==
    [location |-> location, user |-> user, visited_at |-> visited_at, mark |-> mark]

LongCity == Repeat("c", MAX_CITY_LEN + 1)
Times == 1 .. MaxTime
InvalidMark == MAX_MARK + 1

(* The callers of one specification.  c.users, c.locations and c.visits   *)
(* are the entities they add under the next free id, c.user_data,          *)
(* c.location_data and c.visit_data the patches they send to the ids in    *)
(* use.  An id that is taken, or is not the next one, or names no entity,  *)
(* decides the call by itself: such calls carry the payloads of            *)
(* c.refused_users, ..., c.refused_visit_data.                             *)
NextWith(c) ==
    \/ \E user \in c.users \cup c.refused_users :
           /\ IF user.id = Len(users) + 1 THEN user \in c.users
              ELSE user \in c.refused_users
           /\ AddUser(user)
    \/ \E id \in c.user_ids, user_data \in c.user_data \cup c.refused_user_data :
           /\ IF id <= Len(users) THEN user_data \in c.user_data
              ELSE user_data \in c.refused_user_data
           /\ UpdateUser(id, user_data)
    \/ \E location \in c.locations \cup c.refused_locations :
           /\ IF location.id = Len(locations) + 1 THEN location \in c.locations
              ELSE location \in c.refused_locations
           /\ AddLocation(location)
    \/ \E id \in c.location_ids,
          location_data \in c.location_data \cup c.refused_location_data :
           /\ IF id <= Len(locations) THEN location_data \in c.location_data
              ELSE location_data \in c.refused_location_data
           /\ UpdateLocation(id, location_data)
    \/ \E visit \in c.visits \cup c.refused_visits :
           /\ IF visit.id = Len(visits) + 1 THEN visit \in c.visits
              ELSE visit \in c.refused_visits
           /\ AddVisit(visit)
    \/ \E id \in c.visit_ids, visit_data \in c.visit_data \cup c.refused_visit_data :
           /\ IF id <= Len(visits) THEN visit_data \in c.visit_data
              ELSE visit_data \in c.refused_visit_data
           /\ UpdateVisit(id, visit_data)

NoneRefused ==
    [refused_users |-> {}, refused_user_data |-> {}, refused_locations |-> {},
     refused_location_data |-> {}, refused_visits |-> {}, refused_visit_data |-> {}]

(* Spec: two users, two locations and the visits between them, added,      *)
(* patched and moved in every order; a visit may name a user or a location *)
(* that does not exist, and a patch may carry a mark above MAX_MARK.       *)
Callers ==
    [users |-> {User(id, g, 60) : id \in UserIds, g \in {"m", "f"}},
     user_ids |-> UserIds,
     user_data |-> {UserData(g, None) : g \in Opt({"m", "f"})},
     locations |-> {Location(id, "Musei", "Russia", "Moscow", 10) : id \in LocationIds},
     location_ids |-> LocationIds,
     location_data |-> {LocationData(None, None, None, None),
                        LocationData(Some("Musei"), None, Some("Moscow"), None)},
     visits |-> {Visit(id, l, u, t, 3) :
                     id \in VisitIds, l \in 1 .. MaxLocationId + 1,
                     u \in 1 .. MaxUserId + 1, t \in Times},
     visit_ids |-> VisitIds,
     visit_data |-> {VisitData(l, u, t, None) :
                         l \in Opt(LocationIds), u \in Opt(UserIds), t \in Opt(Times)}
                    \cup {VisitData(None, None, None, Some(InvalidMark)),
                          VisitData(None, Some(MaxUserId + 1), None, None),
                          VisitData(Some(MaxLocationId + 1), None, None, None),
                          VisitData(Some(MaxLocationId + 1), Some(MaxUserId + 1),
                                    Some(1), None)}]
    @@ NoneRefused

Next == NextWith(Callers)

Spec == Init /\ [][Next]_vars

(* SpecErr: the same store under every kind of refused call: ids that are  *)
(* taken, ids beyond the next free one, ids that name nothing, entities    *)
(* and patches that fail validation, visits whose foreign keys dangle.     *)
CallersErr ==
    [users |-> {User(id, g, 60) : id \in 1 .. MaxUserId + 1, g \in {"m", "x"}},
     refused_users |-> {User(id, g, 105) : id \in 1 .. MaxUserId + 2, g \in {"f", "x"}},
     user_ids |-> 1 .. MaxUserId + 2,
     user_data |-> {UserData(g, None) : g \in Opt({"m", "x"})},
     refused_user_data |-> {UserData(None, None), UserData(Some("f"), None)},
     locations |-> {Location(id, "Musei", "Russia", city, 10) :
                        id \in 1 .. MaxLocationId + 1, city \in {"Moscow", LongCity}},
     refused_locations |-> {Location(id, "Teatr", "Spain", city, 0) :
                                id \in 1 .. MaxLocationId + 2,
                                city \in {"Moscow", LongCity}},
     location_ids |-> 1 .. MaxLocationId + 2,
     location_data |-> {LocationData(place, None, city, None) :
                            place \in Opt({"Musei"}), city \in {None, Some(LongCity)}},
     refused_location_data |-> {LocationData(None, None, None, None),
                                LocationData(Some("Teatr"), None, None, None)},
     visits |-> {Visit(id, l, u, 1, m) :
                     id \in 1 .. MaxVisitId + 1, l \in 1 .. MaxLocationId + 1,
                     u \in 1 .. MaxUserId + 1, m \in {3, InvalidMark}},
     refused_visits |-> {Visit(id, l, l, MaxTime, m) :
                             id \in 1 .. MaxVisitId + 2, l \in {1, MaxLocationId + 1},
                             m \in {3, InvalidMark}},
     visit_ids |-> 1 .. MaxVisitId + 1,
     visit_data |-> {VisitData(l, u, None, m) :
                         l \in Opt(1 .. MaxLocationId + 1), u \in Opt(1 .. MaxUserId + 1),
                         m \in Opt({3, InvalidMark})},
     refused_visit_data |-> {VisitData(None, None, None, None),
                             VisitData(Some(1), Some(1), Some(1), Some(InvalidMark))}]

NextErr == NextWith(CallersErr)

SpecErr == Init /\ [][NextErr]_vars

(* SpecPlaces: two users visit two places that differ in place, country    *)
(* and distance; the places are patched, the visits are moved between      *)
(* users, places and times.                                                *)
CallersPlaces ==
    [users |-> {User(id, "m", 60) : id \in UserIds},
     user_ids |-> UserIds,
     user_data |-> {UserData(None, None)},
     locations |-> {Location(1, "Musei", "Russia", "Moscow", 10),
                    Location(2, "Teatr", "Spain", "Madrid", 20)},
     location_ids |-> LocationIds,
     location_data |-> {LocationData(Some("Park"), Some("Spain"), None, None),
                        LocationData(None, None, None, Some(30))},
     visits |-> {Visit(id, l, u, t, 3) :
                     id \in VisitIds, l \in LocationIds, u \in UserIds, t \in Times},
     visit_ids |-> VisitIds,
     visit_data |-> {VisitData(l, u, t, None) :
                         l \in Opt(LocationIds), u \in Opt(UserIds), t \in Opt(Times)}]
    @@ NoneRefused

NextPlaces == NextWith(CallersPlaces)

SpecPlaces == Init /\ [][NextPlaces]_vars

(* SpecPeople: a man and a woman, the first visit with mark 2, the second  *)
(* with mark 5; gender and birth date of the users are patched, the visits *)
(* are moved between users, places and times.                              *)
CallersPeople ==
    [users |-> {User(1, "m", 60), User(2, "f", 60)},
     user_ids |-> UserIds,
     user_data |-> {UserData(Some("f"), None), UserData(None, Some(105))},
     locations |-> {Location(id, "Musei", "Russia", "Moscow", 10) : id \in LocationIds},
     location_ids |-> LocationIds,
     location_data |-> {LocationData(None, None, None, None)},
     visits |-> {Visit(id, l, u, t, IF id = 1 THEN 2 ELSE 5) :
                     id \in VisitIds, l \in LocationIds, u \in UserIds, t \in Times},
     visit_ids |-> VisitIds,
     visit_data |-> {VisitData(l, u, t, None) :
                         l \in Opt(LocationIds), u \in Opt(UserIds), t \in Opt(Times)}]
    @@ NoneRefused

NextPeople == NextWith(CallersPeople)

SpecPeople == Init /\ [][NextPeople]_vars

(* SpecAges: stores constructed on 1 January, 29 February and 1 March of   *)
(* the leap year 40; a user born in year 20 and one born in year 35 visit  *)
(* one place.                                                              *)
NowInputsAges == {120, 121, 122}

InitAges ==
    /\ now \in {from_timestamp(ts) : ts \in NowInputsAges}
    /\ users = <<>>
    /\ locations = <<>>
    /\ visits = <<>>
    /\ ret = [op |-> "new", res |-> "Ok", field |-> ""]
    /\ lock = Unlocked
    /\ pc = [t \in Threads |-> "idle"]
    /\ job = [t \in Threads |-> None]

CallersAges ==
    [users |-> {User(1, "m", 60), User(2, "m", 105)},
     user_ids |-> UserIds,
     user_data |-> {UserData(None, Some(60)), UserData(None, Some(105))},
     locations |-> {Location(1, "Musei", "Russia", "Moscow", 10)},
     location_ids |-> {1},
     location_data |-> {LocationData(None, None, None, None)},
     visits |-> {Visit(id, 1, u, t, IF id = 1 THEN 2 ELSE 5) :
                     id \in VisitIds, u \in UserIds, t \in Times},
     visit_ids |-> VisitIds,
     visit_data |-> {VisitData(None, u, None, None) : u \in Opt(UserIds)}]
    @@ NoneRefused

NextAges == NextWith(CallersAges)

SpecAges == InitAges /\ [][NextAges]_vars

(* SpecPatch: patches that carry some fields and leave the others out, for *)
(* each kind, so that every field is present in one patch and absent in    *)
(* another; and patches with a valid field next to an invalid one.         *)
CallersPatch ==
    [users |-> {User(id, "m", 60) : id \in UserIds},
     user_ids |-> {1},
     user_data |-> {UserData(None, None),
                    [email |-> Some("p@mail.com"), first_name |-> None,
                     last_name |-> Some("Ivanov"), gender |-> None, birth_date |-> None],
                    [email |-> None, first_name |-> Some("Petia"),
                     last_name |-> None, gender |-> Some("f"), birth_date |-> None],
                    UserData(None, Some(105)),
                    UserData(Some("x"), Some(75)),
                    [email |-> Some(Repeat("e", MAX_EMAIL_LEN + 1)),
                     first_name |-> Some("Kolia"), last_name |-> None,
                     gender |-> None, birth_date |-> None]},
     locations |-> {Location(id, "Musei", "Russia", "Moscow", 10) : id \in LocationIds},
     location_ids |-> {1},
     location_data |-> {LocationData(None, None, None, None),
                        LocationData(Some("Park"), None, Some("Madrid"), None),
                        LocationData(None, Some("Spain"), None, Some(30)),
                        LocationData(Some("Zoo"), None, Some(LongCity), Some(40))},
     visits |-> {Visit(1, 1, 1, 1, 3)},
     visit_ids |-> {1},
     visit_data |-> {VisitData(None, None, None, None),
                     VisitData(Some(2), None, Some(MaxTime), None),
                     VisitData(None, Some(2), None, Some(4)),
                     VisitData(Some(2), Some(2), Some(1), Some(InvalidMark))}]
    @@ NoneRefused

NextPatch == NextWith(CallersPatch)

SpecPatch == Init /\ [][NextPatch]_vars

---------------------------------------------------------------------------
(* impl StoreWrapper: threads call the store through one RwLock<Store>.    *)

GetUserVisitsOptions(from_date, to_date, country, to_distance) ==
    [from_date |-> from_date, to_date |-> to_date, country |-> country,
     to_distance |-> to_distance]
GetLocationAvgOptions(from_date, to_date, from_age, to_age, gender) ==
    [from_date |-> from_date, to_date |-> to_date, from_age |-> from_age,
     to_age |-> to_age, gender |-> gender]

(* A slip: update_visit asks for the read guard.                           *)
ModeOf_update_visit_shared(op) ==
    IF op \in {"get_user", "get_location", "get_visit", "get_user_visits",
               "get_location_avg", "update_visit"}
    THEN "read" ELSE "write"

(* A slip: add_user asks for the read guard.                               *)
ModeOf_add_user_shared(op) ==
    IF op \in {"get_user", "get_location", "get_visit", "get_user_visits",
               "get_location_avg", "add_user"}
    THEN "read" ELSE "write"

(* The guard each method of the wrapper asks for: self.store.read() or     *)
(* self.store.write().                                                     *)
ModeOf(op) ==
    IF op \in {"get_user", "get_location", "get_visit", "get_user_visits",
               "get_location_avg"}
    THEN "read" ELSE "write"

(* std::sync::RwLock: a read guard is granted while no thread holds a      *)
(* write guard, a write guard while no thread holds any guard; until then  *)
(* the caller blocks.  A write guard dropped by a panicking thread leaves  *)
(* the lock poisoned.                                                      *)
CanLock(mode) ==
    IF mode = "read" THEN lock.writer = None
    ELSE lock.writer = None /\ lock.readers = {}

Locked(t, mode) ==
    IF mode = "read" THEN [lock EXCEPT !.readers = @ \cup {t}]
    ELSE [lock EXCEPT !.writer = Some(t)]

Unlocked_by(t, mode, panicking) ==
    IF mode = "read" THEN [lock EXCEPT !.readers = @ \ {t}]
    ELSE [lock EXCEPT !.writer = None, !.poisoned = @ \/ panicking]

Job(op, id, arg) == [op |-> op, id |-> id, arg |-> arg, step |-> 0, tmp |-> None]

(* A slip: the poison of the lock is not looked at.                        *)
Call_ignoring_poison(t, op, id, arg) ==
    /\ pc[t] = "idle"
    /\ CanLock(ModeOf(op))
    /\ lock' = Locked(t, ModeOf(op))
    /\ pc' = [pc EXCEPT ![t] = "inside"]
    /\ job' = [job EXCEPT ![t] = Some(Job(op, id, arg))]
    /\ UNCHANGED <<now, users, locations, visits, ret>>

(* self.store.read()? or self.store.write()?: thread t gets its guard and  *)
(* is inside the method of the store, or the lock is poisoned and `?`      *)
(* returns LockError, the guard of the PoisonError dropped at once.        *)
Call(t, op, id, arg) ==
    /\ pc[t] = "idle"
    /\ CanLock(ModeOf(op))
    /\ IF lock.poisoned
       THEN /\ ret' = [op |-> op, res |-> "LockError", field |-> ""]
            /\ UNCHANGED <<now, users, locations, visits, lock, pc, job>>
       ELSE /\ lock' = Locked(t, ModeOf(op))
            /\ pc' = [pc EXCEPT ![t] = "inside"]
            /\ job' = [job EXCEPT ![t] = Some(Job(op, id, arg))]
            /\ UNCHANGED <<now, users, locations, visits, ret>>

(* The method of the store has left the store as s and returns: the guard  *)
(* is dropped.  A panic unwinds the thread.                                *)
Leave(t, s, result) ==
    /\ now' = s.now
    /\ users' = s.users
    /\ locations' = s.locations
    /\ visits' = s.visits
    /\ ret' = [op |-> Unwrap(job[t]).op, res |-> result.res, field |-> result.field]
    /\ lock' = Unlocked_by(t, ModeOf(Unwrap(job[t]).op), result = Panic)
    /\ pc' = [pc EXCEPT ![t] = IF result = Panic THEN "panicked" ELSE "idle"]
    /\ job' = [job EXCEPT ![t] = None]

(* The method has written s and goes on, remembering its locals.           *)
Proceed(t, s, tmp) ==
    /\ now' = s.now
    /\ users' = s.users
    /\ locations' = s.locations
    /\ visits' = s.visits
    /\ job' = [job EXCEPT ![t] = Some([Unwrap(@) EXCEPT !.step = @ + 1, !.tmp = tmp])]
    /\ UNCHANGED <<ret, lock, pc>>

Inside(t, ops) == pc[t] = "inside" /\ Unwrap(job[t]).op \in ops

(* The five methods on &self.                                              *)
Read(t) ==
    /\ Inside(t, {"get_user", "get_location", "get_visit", "get_user_visits",
                  "get_location_avg"})
    /\ LET j == Unwrap(job[t])
           got == CASE j.op = "get_user" -> get_user(Self, j.id)
                    [] j.op = "get_location" -> get_location(Self, j.id)
                    [] j.op = "get_visit" -> get_visit(Self, j.id)
                    [] j.op = "get_user_visits" -> get_user_visits(Self, j.id, j.arg)
                    [] j.op = "get_location_avg" -> get_location_avg(Self, j.id, j.arg)
       IN  Leave(t, Self, [res |-> got.res, field |-> ""])

(* add_user, update_user, add_location, update_location.                   *)
Write(t) ==
    /\ Inside(t, {"add_user", "update_user", "add_location", "update_location"})
    /\ LET j == Unwrap(job[t])
           out == CASE j.op = "add_user" -> add_user(Self, j.arg)
                    [] j.op = "update_user" -> update_user(Self, j.id, j.arg)
                    [] j.op = "add_location" -> add_location(Self, j.arg)
                    [] j.op = "update_location" -> update_location(Self, j.id, j.arg)
       IN  Leave(t, out.store, out.result)

(* add_visit, write by write: the checks and add_visit_to_user (lines      *)
(* 294-317), add_visit_to_location (318), the push (320).                  *)
AddVisitStep(t) ==
    /\ Inside(t, {"add_visit"})
    /\ LET j == Unwrap(job[t])
           visit == j.arg
       IN  CASE j.step = 0 ->
                    IF add_visit(Self, visit).result # Ok
                    THEN Leave(t, Self, add_visit(Self, visit).result)
                    ELSE LET user == get_visit_user(Self, visit.user).val
                             location == get_visit_location(Self, visit.location).val
                         IN  Proceed(t, add_visit_to_user(Self, visit, location),
                                     Some([user |-> user, location |-> location]))
             [] j.step = 1 ->
                    Proceed(t, add_visit_to_location(Self, visit, Unwrap(j.tmp).user),
                            j.tmp)
             [] j.step = 2 ->
                    Leave(t, [Self EXCEPT !.visits = Append(@, visit)], Ok)

(* update_visit, write by write: the checks and the replacement in the     *)
(* table (lines 324-360), the person bucket (362-368), the place bucket    *)
(* (369-373).                                                              *)
UpdateVisitStep(t) ==
    /\ Inside(t, {"update_visit"})
    /\ LET j == Unwrap(job[t])
       IN  CASE j.step = 0 ->
                    IF update_visit(Self, j.id, j.arg).result # Ok
                    THEN Leave(t, Self, update_visit(Self, j.id, j.arg).result)
                    ELSE LET visit_index == id_to_index(j.id)
                             original_visit == At(visits, visit_index)
                             updated_visit == PatchVisit(original_visit, j.arg)
                         IN  Proceed(t, ReplaceVisit(Self, visit_index, updated_visit),
                                     Some([original_visit |-> original_visit,
                                           updated_visit |-> updated_visit,
                                           location |-> get_visit_location(
                                               Self, updated_visit.location).val,
                                           user |-> get_visit_user(
                                               Self, updated_visit.user).val]))
             [] j.step = 1 ->
                    LET l == Unwrap(j.tmp)
                    IN  Proceed(t, ReindexUser(Self, l.original_visit, l.updated_visit,
                                               l.location), j.tmp)
             [] j.step = 2 ->
                    LET l == Unwrap(j.tmp)
                    IN  Leave(t, ReindexLocation(Self, l.original_visit, l.updated_visit,
                                                 l.user), Ok)

(* SpecW: two threads, each calling any method of the wrapper at any time. *)
(* The one visit is added for the first user at the first location; it is  *)
(* with another user or at another location only once a patch moved it.    *)
CallersW ==
    [users |-> {User(id, "m", 60) : id \in UserIds},
     user_ids |-> 1 .. MaxUserId + 1,
     user_data |-> {UserData(Some("f"), None)},
     locations |-> {Location(id, "Musei", "Russia", "Moscow", 10) : id \in LocationIds},
     location_ids |-> LocationIds,
     location_data |-> {LocationData(None, None, None, None)},
     visits |-> {Visit(1, 1, u, 1, 3) : u \in {1, MaxUserId + 1}},
     visit_ids |-> {1},
     visit_data |-> {VisitData(l, u, None, None) :
                         l \in Opt(LocationIds), u \in Opt(1 .. MaxUserId + 1)},
     ids |-> {1, 2}]

NextW ==
    \E t \in Threads :
        \/ \E id \in CallersW.ids : Call(t, "get_user", id, None)
        \/ \E id \in CallersW.ids : Call(t, "get_location", id, None)
        \/ \E id \in CallersW.ids : Call(t, "get_visit", id, None)
        \/ \E id \in CallersW.ids :
               Call(t, "get_user_visits", id, GetUserVisitsOptions(None, None, None, None))
        \/ \E id \in CallersW.ids :
               Call(t, "get_location_avg", id,
                    GetLocationAvgOptions(None, None, None, None, None))
        \/ \E user \in CallersW.users : Call(t, "add_user", user.id, user)
        \/ \E id \in CallersW.user_ids, user_data \in CallersW.user_data :
               Call(t, "update_user", id, user_data)
        \/ \E location \in CallersW.locations :
               Call(t, "add_location", location.id, location)
        \/ \E id \in CallersW.location_ids, location_data \in CallersW.location_data :
               Call(t, "update_location", id, location_data)
        \/ \E visit \in CallersW.visits : Call(t, "add_visit", visit.id, visit)
        \/ \E id \in CallersW.visit_ids, visit_data \in CallersW.visit_data :
               Call(t, "update_visit", id, visit_data)
        \/ Read(t)
        \/ Write(t)
        \/ AddVisitStep(t)
        \/ UpdateVisitStep(t)

SpecW == Init /\ [][NextW]_vars

(* SpecWFair: a thread that is inside a method of the store goes on        *)
(* running: the scheduler does not stop a thread for ever.                 *)
Runs(t) == Read(t) \/ Write(t) \/ AddVisitStep(t) \/ UpdateVisitStep(t)

SpecWFair == SpecW /\ \A t \in Threads : WF_vars(Runs(t))

---------------------------------------------------------------------------
(* SpecMarks: a store loaded, as load_data loads it, with one location,    *)
(* one user and up to MaxRated visits of that user there, of any marks;    *)
(* its owner then asks for the rating and for the visits.                  *)
MaxRated == 4
Marks == 0 .. MAX_MARK
MarkLists == UNION {[1 .. n -> Marks] : n \in 1 .. MaxRated}

RECURSIVE LoadVisits(_, _)
LoadVisits(s, marks) ==
    IF marks = <<>> THEN s
    ELSE LoadVisits(add_visit(s, Visit(Len(s.visits) + 1, 1, 1, 1, Head(marks))).store,
                    Tail(marks))

Loaded(marks) ==
    LET new == [now |-> from_timestamp(120), users |-> <<>>, locations |-> <<>>,
                visits |-> <<>>]
        with_location == add_location(new, Location(1, "Musei", "Russia", "Moscow", 10)).store
        with_user == add_user(with_location, User(1, "m", 60)).store
    IN  LoadVisits(with_user, marks)

InitMarks ==
    /\ \E marks \in MarkLists :
           /\ now = Loaded(marks).now
           /\ users = Loaded(marks).users
           /\ locations = Loaded(marks).locations
           /\ visits = Loaded(marks).visits
    /\ ret = [op |-> "new", res |-> "Ok", field |-> ""]
    /\ lock = Unlocked
    /\ pc = [t \in Threads |-> "idle"]
    /\ job = [t \in Threads |-> None]

(* A query on the store returns: ret holds what was asked and the answer.  *)
Answers(op, id, options, got) ==
    /\ ret' = [op |-> op, res |-> got.res, field |-> "", id |-> id,
               options |-> options, val |-> got.val]
    /\ UNCHANGED <<now, users, locations, visits, lock, pc, job>>

GetUserVisits(id, options) ==
    Answers("get_user_visits", id, options, get_user_visits(Self, id, options))
GetLocationAvg(id, options) ==
    Answers("get_location_avg", id, options, get_location_avg(Self, id, options))

NextMarks ==
    \/ \E id \in {1, 2}, from_date \in Opt({1}) :
           GetUserVisits(id, GetUserVisitsOptions(from_date, None, None, None))
    \/ \E id \in {1, 2}, from_date \in Opt({1}) :
           GetLocationAvg(id, GetLocationAvgOptions(from_date, None, None, None, None))

SpecMarks == InitMarks /\ [][NextMarks]_vars

(* SpecSum: the store of the test get_location_avg_overflow, and ones like *)
(* it: one location, one user and up to MaxSame visits of the same mark.   *)
MaxSame == 99

InitSum ==
    /\ now = Loaded(<<>>).now
    /\ users = Loaded(<<>>).users
    /\ locations = Loaded(<<>>).locations
    /\ visits = Loaded(<<>>).visits
    /\ ret = [op |-> "new", res |-> "Ok", field |-> ""]
    /\ lock = Unlocked
    /\ pc = [t \in Threads |-> "idle"]
    /\ job = [t \in Threads |-> None]

(* One more visit of the mark of the visits before it.                     *)
AddSameVisit(mark) ==
    /\ Len(visits) < MaxSame
    /\ visits # <<>> => mark = At(visits, 0).mark
    /\ now' = now
    /\ users' = add_visit(Self, Visit(Len(visits) + 1, 1, 1, 1, mark)).store.users
    /\ locations' = add_visit(Self, Visit(Len(visits) + 1, 1, 1, 1, mark)).store.locations
    /\ visits' = add_visit(Self, Visit(Len(visits) + 1, 1, 1, 1, mark)).store.visits
    /\ ret' = [op |-> "add_visit",
               res |-> add_visit(Self, Visit(Len(visits) + 1, 1, 1, 1, mark)).result.res,
               field |-> ""]
    /\ UNCHANGED <<lock, pc, job>>

NextSum ==
    \/ \E mark \in Marks : AddSameVisit(mark)
    \/ \E from_date \in Opt({1}) :
           GetLocationAvg(1, GetLocationAvgOptions(from_date, None, None, None, None))

SpecSum == InitSum /\ [][NextSum]_vars

(* SpecOrder: two threads add visits, valid ones and ones with a mark      *)
(* above MAX_MARK, a missing user or a missing location, to a shared store *)
(* of one user and one location, and read them.                            *)
CallersOrder ==
    [visits |-> {Visit(id, l, u, 1, mark) :
                     id \in VisitIds, l \in {1, 2}, u \in {1, 2},
                     mark \in {3, InvalidMark}},
     ids |-> {1}]

InitOrder ==
    /\ now = Loaded(<<>>).now
    /\ users = Loaded(<<>>).users
    /\ locations = Loaded(<<>>).locations
    /\ visits = Loaded(<<>>).visits
    /\ ret = [op |-> "new", res |-> "Ok", field |-> ""]
    /\ lock = Unlocked
    /\ pc = [t \in Threads |-> "idle"]
    /\ job = [t \in Threads |-> None]

NextOrder ==
    \E t \in Threads :
        \/ \E id \in CallersOrder.ids : Call(t, "get_visit", id, None)
        \/ \E visit \in CallersOrder.visits : Call(t, "add_visit", visit.id, visit)
        \/ Read(t)
        \/ AddVisitStep(t)

SpecOrder == InitOrder /\ [][NextOrder]_vars

(* SpecInsert: one user and one location; up to MaxInserted visits of the  *)
(* user are added at any of the times, each with its id as its mark, then  *)
(* patched to another time or another mark, and the user's visits listed.  *)
MaxInserted == 3
InsertTimes == 1 .. MaxTime + 1

Inserts(op, out) ==
    /\ Len(out.store.visits) <= MaxInserted
    /\ now' = out.store.now
    /\ users' = out.store.users
    /\ locations' = out.store.locations
    /\ visits' = out.store.visits
    /\ ret' = [op |-> op, res |-> out.result.res, field |-> out.result.field]
    /\ UNCHANGED <<lock, pc, job>>

NextInsert ==
    \/ \E visited_at \in InsertTimes :
           Inserts("add_visit",
                   add_visit(Self, Visit(Len(visits) + 1, 1, 1, visited_at,
                                         Len(visits) + 1)))
    \/ \E id \in 1 .. MaxInserted, visited_at \in Opt(InsertTimes) :
           /\ id <= Len(visits)
           /\ Inserts("update_visit",
                      update_visit(Self, id, VisitData(None, None, visited_at, Some(id))))
    \/ GetUserVisits(1, GetUserVisitsOptions(None, None, None, None))

SpecInsert == InitOrder /\ [][NextInsert]_vars

(* SpecFrame: callers that patch visits field by field: the mark alone,    *)
(* visited_at alone, every field with a value it may have already.         *)
CallersFrame ==
    [users |-> {User(id, "m", 60) : id \in UserIds},
     user_ids |-> UserIds,
     user_data |-> {UserData(None, None)},
     locations |-> {Location(id, "Musei", "Russia", "Moscow", 10) : id \in LocationIds},
     location_ids |-> LocationIds,
     location_data |-> {LocationData(None, None, None, None)},
     visits |-> {Visit(id, l, u, t, 3) :
                     id \in VisitIds, l \in LocationIds, u \in UserIds, t \in Times},
     visit_ids |-> VisitIds,
     visit_data |-> {VisitData(None, None, None, mark) : mark \in Opt({3, 4})}
                    \cup {VisitData(None, None, Some(t), None) : t \in Times}
                    \cup {VisitData(Some(l), Some(u), Some(t), Some(3)) :
                            l \in LocationIds, u \in UserIds, t \in Times}]
    @@ NoneRefused

NextFrame == NextWith(CallersFrame)

SpecFrame == Init /\ [][NextFrame]_vars

(* SpecFields: two users, two locations and two visits between them; the   *)
(* patches change a field of a user, of a location and of a visit, and one *)
(* patch of each kind is invalid.                                          *)
CallersFields ==
    [users |-> {User(id, "m", 60) : id \in UserIds},
     user_ids |-> UserIds,
     user_data |-> {UserData(Some("f"), None), UserData(Some("x"), None)},
     locations |-> {Location(id, "Musei", "Russia", "Moscow", 10) : id \in LocationIds},
     location_ids |-> LocationIds,
     location_data |-> {LocationData(Some("Park"), None, None, None),
                        LocationData(None, None, Some(LongCity), None)},
     visits |-> {Visit(id, l, u, t, 3) :
                     id \in VisitIds, l \in LocationIds, u \in UserIds, t \in Times},
     visit_ids |-> VisitIds,
     visit_data |-> {VisitData(l, None, None, None) : l \in Opt(LocationIds)}
                    \cup {VisitData(None, Some(u), None, None) : u \in UserIds}
                    \cup {VisitData(None, None, Some(t), None) : t \in Times}
                    \cup {VisitData(None, None, None, Some(InvalidMark))}]
    @@ NoneRefused

NextFields == NextWith(CallersFields)

SpecFields == Init /\ [][NextFields]_vars

(* SpecDiverged: update_visit on stores whose index and table have fallen  *)
(* out of step.  Such a store is one the adds have built, with the entry   *)
(* of one visit taken out of its person bucket or of its place bucket; no  *)
(* sequence of calls on a Store leaves one, and update_visit is applied to *)
(* it as the function of its arguments that it is.                         *)
Stocked ==
    LET new == [now |-> from_timestamp(120), users |-> <<>>, locations |-> <<>>,
                visits |-> <<>>]
        l1 == add_location(new, Location(1, "Musei", "Russia", "Moscow", 10)).store
        l2 == add_location(l1, Location(2, "Teatr", "Spain", "Madrid", 20)).store
        u1 == add_user(l2, User(1, "m", 60)).store
    IN  add_user(u1, User(2, "f", 60)).store

VisitsOf(id) == {Visit(id, l, u, t, 3) : l \in LocationIds, u \in UserIds, t \in Times}

Visited ==
    {add_visit(Stocked, v1).store : v1 \in VisitsOf(1)}
    \cup {add_visit(add_visit(Stocked, v1).store, v2).store :
            v1 \in VisitsOf(1), v2 \in VisitsOf(2)}

Diverged ==
    UNION {UNION {{remove_visit_from_user(s, s.visits[k]),
                   remove_visit_from_location(s, s.visits[k])} :
                      k \in 1 .. Len(s.visits)} : s \in Visited}

InitDiverged ==
    /\ \E s \in Diverged :
           /\ now = s.now
           /\ users = s.users
           /\ locations = s.locations
           /\ visits = s.visits
    /\ ret = [op |-> "new", res |-> "Ok", field |-> ""]
    /\ lock = Unlocked
    /\ pc = [t \in Threads |-> "idle"]
    /\ job = [t \in Threads |-> None]

NextDiverged ==
    \E id \in VisitIds, l \in Opt(LocationIds), u \in Opt(UserIds), t \in Opt(Times) :
        /\ id <= Len(visits)
        /\ UpdateVisit(id, VisitData(l, u, t, None))

SpecDiverged == InitDiverged /\ [][NextDiverged]_vars

(* SpecClock: the callers of SpecAges, who also ask for the average of     *)
(* location 1 at any time of the wall clock.                               *)
ClockInputs == {120, 123, 150}

(* A slip: the ages are counted back from the time of the query.           *)
GetLocationAvgAt_by_the_clock(at, id, options) ==
    /\ ret' = [op |-> "get_location_avg",
               res |-> get_location_avg([Self EXCEPT !.now = from_timestamp(at)],
                                        id, options).res,
               field |-> "", id |-> id, options |-> options, at |-> at,
               val |-> get_location_avg([Self EXCEPT !.now = from_timestamp(at)],
                                        id, options).val]
    /\ UNCHANGED <<now, users, locations, visits, lock, pc, job>>

(* get_location_avg called when the wall clock shows at: the ages are      *)
(* counted back from self.now (lines 427-434), the clock is not read.      *)
GetLocationAvgAt(at, id, options) ==
    /\ ret' = [op |-> "get_location_avg",
               res |-> get_location_avg(Self, id, options).res,
               field |-> "", id |-> id, options |-> options, at |-> at,
               val |-> get_location_avg(Self, id, options).val]
    /\ UNCHANGED <<now, users, locations, visits, lock, pc, job>>

NextClock ==
    \/ NextWith(CallersAges)
    \/ \E at \in ClockInputs, from_age \in Opt({10}) :
           GetLocationAvgAt(at, 1, GetLocationAvgOptions(None, None, from_age, None, None))

SpecClock == InitAges /\ [][NextClock]_vars

---------------------------------------------------------------------------
(* loader::load_data: the files of a dataset replayed into a new store.    *)

(* The datasets: the locations, users and visits of the files, in the      *)
(* order of the sorted file names.  Some are whole, some start at id 2,    *)
(* some hold an invalid user, some visits name entities that are not in    *)
(* the dataset.                                                            *)
Datasets ==
    [locations : {<<>>, <<Location(1, "Musei", "Russia", "Moscow", 10)>>,
                  <<Location(1, "Musei", "Russia", "Moscow", 10),
                    Location(2, "Teatr", "Spain", "Madrid", 20)>>,
                  <<Location(2, "Teatr", "Spain", "Madrid", 20)>>},
     users : {<<>>, <<User(1, "m", 60)>>, <<User(1, "m", 60), User(2, "f", 60)>>,
              <<User(1, "m", 60), User(2, "x", 60)>>},
     visits : {<<>>}
              \cup {<<Visit(1, l, u, 1, 3)>> : l \in LocationIds, u \in UserIds}
              \cup {<<Visit(1, l1, u1, 1, 3), Visit(2, l2, u2, 1, 3)>> :
                        l1 \in LocationIds, u1 \in UserIds,
                        l2 \in LocationIds, u2 \in UserIds}]

(* A slip: the visits are replayed before the users.                       *)
NextKind_visits_before_users(rest) ==
    IF rest.locations # <<>> THEN "locations"
    ELSE IF rest.visits # <<>> THEN "visits"
    ELSE IF rest.users # <<>> THEN "users"
    ELSE "done"

(* The three loops of load_data, one after the other.                      *)
NextKind(rest) ==
    IF rest.locations # <<>> THEN "locations"
    ELSE IF rest.users # <<>> THEN "users"
    ELSE IF rest.visits # <<>> THEN "visits"
    ELSE "done"

(* store.add_...(entity)?: the store is as the add left it; an Err ends    *)
(* load_data.                                                              *)
Loads(t, op, out, rest) ==
    /\ now' = out.store.now
    /\ users' = out.store.users
    /\ locations' = out.store.locations
    /\ visits' = out.store.visits
    /\ ret' = [op |-> op, res |-> out.result.res, field |-> out.result.field]
    /\ IF out.result = Ok
       THEN /\ job' = [job EXCEPT ![t] = Some([Unwrap(@) EXCEPT !.rest = rest])]
            /\ pc' = pc
       ELSE /\ pc' = [pc EXCEPT ![t] = "load_failed"]
            /\ job' = job
    /\ UNCHANGED lock

LoadStep(t) ==
    /\ pc[t] = "loading"
    /\ LET rest == Unwrap(job[t]).rest
           kind == NextKind(rest)
       IN  CASE kind = "locations" ->
                    Loads(t, "add_location", add_location(Self, Head(rest.locations)),
                          [rest EXCEPT !.locations = Tail(@)])
             [] kind = "users" ->
                    Loads(t, "add_user", add_user(Self, Head(rest.users)),
                          [rest EXCEPT !.users = Tail(@)])
             [] kind = "visits" ->
                    Loads(t, "add_visit", add_visit(Self, Head(rest.visits)),
                          [rest EXCEPT !.visits = Tail(@)])
             [] kind = "done" ->
                    /\ pc' = [pc EXCEPT ![t] = "loaded"]
                    /\ ret' = [op |-> "load_data", res |-> "Ok", field |-> ""]
                    /\ UNCHANGED <<now, users, locations, visits, lock, job>>

(* SpecLoad: the first thread loads a dataset into a new store.            *)
InitLoad ==
    /\ now \in {from_timestamp(ts) : ts \in NowInputs}
    /\ users = <<>>
    /\ locations = <<>>
    /\ visits = <<>>
    /\ ret = [op |-> "new", res |-> "Ok", field |-> ""]
    /\ lock = Unlocked
    /\ \E data \in Datasets :
           /\ pc = [t \in Threads |-> IF t = "t1" THEN "loading" ELSE "idle"]
           /\ job = [t \in Threads |->
                        IF t = "t1" THEN Some([data |-> data, rest |-> data]) ELSE None]

NextLoad == \E t \in Threads : LoadStep(t)

SpecLoad == InitLoad /\ [][NextLoad]_vars

(* The archive data.zip: its files in the order of the archive.  The name  *)
(* of a file is a prefix, the decimal digits of its number and a suffix;   *)
(* a file holds entities.                                                  *)
File(prefix, digits, sufix, entities) ==
    [prefix |-> prefix, digits |-> digits, sufix |-> sufix, entities |-> entities]
JSON_SUFIX == ".json"

(* str::parse::<usize> of the digits between the prefix and the suffix.    *)
RECURSIVE ParseIndex(_)
ParseIndex(digits) ==
    IF digits = <<>> THEN 0
    ELSE 10 * ParseIndex(SubSeq(digits, 1, Len(digits) - 1)) + digits[Len(digits)]

(* sort_by with left_index.cmp(&right_index): a stable sort, so a file     *)
(* goes behind the files of a smaller or equal number sorted before it.    *)
RECURSIVE SortedByIndex(_)
SortedByIndex(files) ==
    IF files = <<>> THEN <<>>
    ELSE LET last == files[Len(files)]
             sorted == SortedByIndex(SubSeq(files, 1, Len(files) - 1))
             before == {k \in 1 .. Len(sorted) :
                            ParseIndex(sorted[k].digits) <= ParseIndex(last.digits)}
         IN  SubSeq(sorted, 1, Cardinality(before)) \o <<last>>
                 \o SubSeq(sorted, Cardinality(before) + 1, Len(sorted))

(* A slip: the names are left in the order of the archive.                 *)
get_sorted_file_names_unsorted(archive, prefix) ==
    LET Matches(k) == archive[k].prefix = prefix /\ archive[k].sufix = JSON_SUFIX
        RECURSIVE Matching(_)
        Matching(n) ==
            IF n = 0 THEN <<>>
            ELSE IF Matches(n) THEN Append(Matching(n - 1), archive[n])
            ELSE Matching(n - 1)
    IN  Matching(Len(archive))

(* get_sorted_file_names: the files whose name starts with the prefix and  *)
(* ends with .json, sorted by the number in the name.                      *)
get_sorted_file_names(archive, prefix) ==
    LET Matches(k) == archive[k].prefix = prefix /\ archive[k].sufix = JSON_SUFIX
        RECURSIVE Matching(_)
        Matching(n) ==
            IF n = 0 THEN <<>>
            ELSE IF Matches(n) THEN Append(Matching(n - 1), archive[n])
            ELSE Matching(n - 1)
    IN  SortedByIndex(Matching(Len(archive)))

RECURSIVE EntitiesOf(_)
EntitiesOf(files) ==
    IF files = <<>> THEN <<>> ELSE Head(files).entities \o EntitiesOf(Tail(files))

(* The files an archive may hold.  The user of a users_ file has the rank  *)
(* of the number of the file among the numbers in use as its id, so the    *)
(* ids grow with the numbers.                                              *)
MaxFiles == 3
FileDigits == {<<1>>, <<2>>, <<1, 0>>}
FilePool(used) ==
    {File("users_", digits, JSON_SUFIX,
          <<User(Cardinality({d \in used : ParseIndex(d) <= ParseIndex(digits)}),
                 "m", 60)>>) : digits \in used}
    \cup {File("users_", <<1>>, ".txt", <<>>),
          File("locations_", <<1>>, JSON_SUFIX,
               <<Location(1, "Musei", "Russia", "Moscow", 10)>>)}
Archives ==
    UNION {{archive \in UNION {[1 .. n -> FilePool(used)] : n \in 0 .. MaxFiles} :
                /\ \A i, j \in DOMAIN archive : archive[i] = archive[j] => i = j
                /\ \A d \in used : \E i \in DOMAIN archive :
                       archive[i].prefix = "users_" /\ archive[i].digits = d
                                                    /\ archive[i].sufix = JSON_SUFIX} :
              used \in SUBSET FileDigits}

(* load_data up to its loops: the names of each kind are sorted and the    *)
(* files read in that order.                                               *)
ReadArchive(t) ==
    /\ pc[t] = "opening"
    /\ LET archive == Unwrap(job[t]).archive
           data == [locations |->
                        EntitiesOf(get_sorted_file_names(archive, "locations_")),
                    users |-> EntitiesOf(get_sorted_file_names(archive, "users_")),
                    visits |-> EntitiesOf(get_sorted_file_names(archive, "visits_"))]
       IN  job' = [job EXCEPT ![t] =
                      Some([archive |-> archive,
                            names |-> get_sorted_file_names(archive, "users_"),
                            data |-> data, rest |-> data])]
    /\ pc' = [pc EXCEPT ![t] = "loading"]
    /\ ret' = [op |-> "get_sorted_file_names", res |-> "Ok", field |-> ""]
    /\ UNCHANGED <<now, users, locations, visits, lock>>

(* SpecFiles: the first thread loads an archive into a new store.          *)
InitFiles ==
    /\ now \in {from_timestamp(ts) : ts \in NowInputs}
    /\ users = <<>>
    /\ locations = <<>>
    /\ visits = <<>>
    /\ ret = [op |-> "new", res |-> "Ok", field |-> ""]
    /\ lock = Unlocked
    /\ \E archive \in Archives :
           /\ pc = [t \in Threads |-> IF t = "t1" THEN "opening" ELSE "idle"]
           /\ job = [t \in Threads |->
                        IF t = "t1" THEN Some([archive |-> archive]) ELSE None]

NextFiles ==
    \E t \in Threads :
        \/ ReadArchive(t)
        \/ LoadStep(t)

SpecFiles == InitFiles /\ [][NextFiles]_vars

---------------------------------------------------------------------------
(* main.rs: the Router in front of the store.                              *)

(* serde_json::Value, as far as the bodies of the requests need it.        *)
JNull == [type |-> "null"]
JNum(n) == [type |-> "number", val |-> n]
JStr(str) == [type |-> "string", val |-> str]

(* The body of a request: a JSON object, or bytes that are no JSON object  *)
(* (the empty body of a GET among them).                                   *)
Object(map) == [object |-> TRUE, map |-> map]
EmptyBody == [object |-> FALSE, map |-> [f \in {} |-> JNull]]

(* The fields of the structs of models.rs and their JSON types.            *)
FieldsOf(kind) ==
    CASE kind = "user" ->
             {"id", "email", "first_name", "last_name", "gender", "birth_date"}
      [] kind = "location" -> {"id", "place", "country", "city", "distance"}
      [] kind = "visit" -> {"id", "location", "user", "visited_at", "mark"}
StringFields == {"email", "first_name", "last_name", "gender", "place", "country", "city"}
TypeOf(f) == IF f \in StringFields THEN "string" ELSE "number"

(* The JSON object a client writes for an entity or for a patch; one with  *)
(* a null for field f; one with field f left out.                          *)
JsonOf(entity) ==
    [f \in DOMAIN entity |->
        IF f \in StringFields THEN JStr(entity[f]) ELSE JNum(entity[f])]
JsonOfData(data) ==
    [f \in {g \in DOMAIN data : IsSome(data[g])} |->
        IF f \in StringFields THEN JStr(Unwrap(data[f])) ELSE JNum(Unwrap(data[f]))]
WithNull(map, f) == [g \in DOMAIN map \cup {f} |-> IF g = f THEN JNull ELSE map[g]]
Without(map, f) == [g \in DOMAIN map \ {f} |-> map[g]]

(* A slip: the values of the body are not searched for a null.             *)
HasNull_never(map) == FALSE

(* map.values().find(|v| **v == Value::Null).is_some()                      *)
HasNull(map) == \E f \in DOMAIN map : map[f].type = "null"

(* serde_json::from_value into a struct of models.rs.  An entity needs     *)
(* every field, of its type; a field of a patch is an Option, None when    *)
(* the field is left out or null; gender is a char; other fields of the    *)
(* object are ignored.                                                     *)
from_value(kind, patch, map) ==
    LET fields == IF patch THEN FieldsOf(kind) \ {"id"} ELSE FieldsOf(kind)
        given(f) == f \in DOMAIN map /\ ~(patch /\ map[f].type = "null")
        bad(f) == IF given(f)
                  THEN \/ map[f].type # TypeOf(f)
                       \/ f = "gender" /\ Len(map[f].val) # 1
                  ELSE ~patch
    IN  IF \E f \in fields : bad(f)
        THEN [ok |-> FALSE, value |-> None]
        ELSE [ok |-> TRUE,
              value |-> [f \in fields |->
                            IF patch
                            THEN IF given(f) THEN Some(map[f].val) ELSE None
                            ELSE map[f].val]]

(* AppError.                                                               *)
NoError == [kind |-> "", res |-> "", field |-> ""]
JsonError == [kind |-> "JsonError", res |-> "", field |-> ""]
NullValue == [kind |-> "NullValue", res |-> "", field |-> ""]
AppStoreError(result) == [kind |-> "StoreError", res |-> result.res, field |-> result.field]

(* A slip: no arm for EntityNotExists.                                     *)
app_error_without_not_found(err) ==
    CASE err.kind = "JsonError" -> "BadRequest"
      [] err.kind = "StoreError" /\ err.res \in {"EntryExists", "InvalidEntity"} ->
             "BadRequest"
      [] err.kind = "NullValue" -> "BadRequest"
      [] err.kind \in {"ParamsMissed", "ParamsError"} -> "BadRequest"
      [] OTHER -> "InternalServerError"

(* Router::app_error: the status of the response to an error.              *)
app_error(err) ==
    CASE err.kind = "JsonError" -> "BadRequest"
      [] err.kind = "StoreError" /\ err.res \in {"EntryExists", "InvalidEntity"} ->
             "BadRequest"
      [] err.kind = "NullValue" -> "BadRequest"
      [] err.kind \in {"ParamsMissed", "ParamsError"} -> "BadRequest"
      [] err.kind = "StoreError" /\ err.res = "EntityNotExists" -> "NotFound"
      [] OTHER -> "InternalServerError"

(* A get leaves the store as it is; its entity goes into the response.     *)
Got(got) == Out(Self, [res |-> got.res, field |-> ""])

(* The method of the shared store a handler calls: LockError when the      *)
(* lock is poisoned.                                                       *)
StoreCall(op, id, value) ==
    IF lock.poisoned THEN Out(Self, LockError)
    ELSE CASE op = "get_user" -> Got(get_user(Self, id))
           [] op = "add_user" -> add_user(Self, value)
           [] op = "update_user" -> update_user(Self, id, value)
           [] op = "get_location" -> Got(get_location(Self, id))
           [] op = "add_location" -> add_location(Self, value)
           [] op = "update_location" -> update_location(Self, id, value)
           [] op = "get_visit" -> Got(get_visit(Self, id))
           [] op = "add_visit" -> add_visit(Self, value)
           [] op = "update_visit" -> update_visit(Self, id, value)

(* The handler answers without a call on the store.                        *)
Rejects(req, err) ==
    /\ ret' = [op |-> req.op, res |-> "", field |-> "", id |-> req.id,
               body |-> req.body, error |-> err, status |-> app_error(err),
               called |-> FALSE]
    /\ UNCHANGED <<now, users, locations, visits, lock, pc, job>>

(* The handler has called the store: Ok is answered with 200 and a body,   *)
(* an Err with the status of app_error; a panic of the store under its     *)
(* lock poisons the lock and no response is written.                       *)
Responds(req, out) ==
    /\ WithinBounds(out.store)
    /\ now' = out.store.now
    /\ users' = out.store.users
    /\ locations' = out.store.locations
    /\ visits' = out.store.visits
    /\ lock' = IF out.result = Panic THEN [lock EXCEPT !.poisoned = TRUE] ELSE lock
    /\ LET err == IF out.result.res \in {"Ok", "Panic"}
                  THEN NoError ELSE AppStoreError(out.result)
       IN  ret' = [op |-> req.op, res |-> out.result.res, field |-> out.result.field,
                   id |-> req.id, body |-> req.body, error |-> err,
                   status |-> CASE out.result.res = "Ok" -> "Ok"
                                [] out.result.res = "Panic" -> ""
                                [] OTHER -> app_error(err),
                   called |-> TRUE]
    /\ UNCHANGED <<pc, job>>

KindOf(op) ==
    CASE op \in {"get_user", "add_user", "update_user"} -> "user"
      [] op \in {"get_location", "add_location", "update_location"} -> "location"
      [] op \in {"get_visit", "add_visit", "update_visit"} -> "visit"

(* Router::get_user, get_location, get_visit.                              *)
Get(req) ==
    /\ req.op \in {"get_user", "get_location", "get_visit"}
    /\ Responds(req, StoreCall(req.op, req.id, None))

(* Router::add_user, update_user, add_location, update_location,           *)
(* add_visit, update_visit: from_slice, the search for a null, from_value, *)
(* the call on the store.                                                  *)
Post(req) ==
    /\ req.op \in {"add_user", "update_user", "add_location", "update_location",
                   "add_visit", "update_visit"}
    /\ LET patch == req.op \in {"update_user", "update_location", "update_visit"}
           parsed == from_value(KindOf(req.op), patch, req.body.map)
       IN  IF ~req.body.object THEN Rejects(req, JsonError)
           ELSE IF HasNull(req.body.map) THEN Rejects(req, NullValue)
           ELSE IF ~parsed.ok THEN Rejects(req, JsonError)
           ELSE Responds(req, StoreCall(req.op, req.id, parsed.value))

Request(op, id, body) == [op |-> op, id |-> id, body |-> body]

(* The bodies clients send: whole ones, ones with a null, ones with a      *)
(* field left out, ones of a wrong type, ones that are no JSON.            *)
EntityBodies(entity, f) ==
    {Object(JsonOf(entity)), Object(WithNull(JsonOf(entity), f)),
     Object(Without(JsonOf(entity), f))}
DataBodies(data, f) ==
    {Object(JsonOfData(data)), Object(WithNull(JsonOfData(data), f))}

Requests ==
    {Request(op, id, EmptyBody) :
        op \in {"get_user", "get_location", "get_visit"}, id \in 1 .. 2}
    \cup {Request("add_user", 0, b) :
            b \in EntityBodies(User(1, "m", 60), "email")
                  \cup EntityBodies(User(2, "x", 60), "birth_date")
                  \cup {EmptyBody}}
    \cup {Request("update_user", id, b) :
            id \in 1 .. 3,
            b \in DataBodies(UserData(Some("f"), None), "gender")
                  \cup {Object(JsonOfData(UserData(None, None))),
                        Object([birth_date |-> JStr("1970")])}}
    \cup {Request("add_location", 0, b) :
            b \in EntityBodies(Location(1, "Musei", "Russia", "Moscow", 10), "city")
                  \cup {Object(JsonOf(Location(2, "Teatr", "Spain", LongCity, 20)))}}
    \cup {Request("update_location", id, b) :
            id \in 1 .. 2,
            b \in DataBodies(LocationData(None, None, None, Some(30)), "place")}
    \cup {Request("add_visit", 0, b) :
            b \in EntityBodies(Visit(1, 1, 1, 1, 3), "mark")
                  \cup {Object(JsonOf(Visit(2, 1, 2, 1, 3)))}}
    \cup {Request("update_visit", id, b) :
            id \in 1 .. 2,
            b \in DataBodies(VisitData(None, None, None, Some(4)), "mark")
                  \cup DataBodies(VisitData(None, None, Some(2), None), "user")}

(* SpecHttp: requests answered one at a time on a new store.               *)
InitHttp ==
    /\ now \in {from_timestamp(ts) : ts \in NowInputs}
    /\ users = <<>>
    /\ locations = <<>>
    /\ visits = <<>>
    /\ ret = [op |-> "new", res |-> "Ok", field |-> "", id |-> 0, body |-> EmptyBody,
              error |-> NoError, status |-> "", called |-> FALSE]
    /\ lock = Unlocked
    /\ pc = [t \in Threads |-> "idle"]
    /\ job = [t \in Threads |-> None]

NextHttp ==
    \/ \E req \in Requests : Get(req)
    \/ \E req \in Requests : Post(req)

SpecHttp == InitHttp /\ [][NextHttp]_vars

---------------------------------------------------------------------------
(* Strings of other than ASCII letters.  A String is its UTF-8 bytes, and  *)
(* String::len is the number of the bytes; a sequence of bytes stands for  *)
(* such a String here, so that StrLen is its Len as well.                  *)

(* n times the letter a (one byte), n times the Cyrillic letter ya (two    *)
(* bytes, 0xD1 0x8F).                                                      *)
Latin(n) == [i \in 1 .. n |-> 97]
Cyrillic(n) == [i \in 1 .. 2 * n |-> IF i % 2 = 1 THEN 209 ELSE 143]

UserNamed(id, email, first_name, last_name, gender) ==
    [id |-> id, email |-> email, first_name |-> first_name, last_name |-> last_name,
     gender |-> gender, birth_date |-> 60]
UserDataNamed(email, first_name, last_name, gender) ==
    [email |-> email, first_name |-> first_name, last_name |-> last_name,
     gender |-> gender, birth_date |-> None]

(* SpecText: callers whose strings are at the bounds of the validators, in *)
(* Latin and in Cyrillic letters.                                          *)
CallersText ==
    [users |-> {UserNamed(1, email, Latin(5), Latin(6), "m") :
                    email \in {Latin(MAX_EMAIL_LEN), Latin(MAX_EMAIL_LEN + 1),
                               Cyrillic(MAX_EMAIL_LEN \div 2),
                               Cyrillic(MAX_EMAIL_LEN \div 2 + 1)}}
               \cup {UserNamed(1, Latin(10), name, Latin(6), gender) :
                        name \in {Latin(MAX_NAME_LEN), Latin(MAX_NAME_LEN + 1)},
                        gender \in {"f", "x"}}
               \cup {UserNamed(1, Latin(10), Latin(5), name, "f") :
                        name \in {Cyrillic(MAX_NAME_LEN \div 2),
                                  Cyrillic(MAX_NAME_LEN \div 2 + 1),
                                  Latin(MAX_NAME_LEN + 1)}},
     user_ids |-> {1},
     user_data |-> {UserDataNamed(email, None, None, None) :
                        email \in {None, Some(Latin(MAX_EMAIL_LEN + 1)),
                                   Some(Cyrillic(MAX_EMAIL_LEN))}}
                   \cup {UserDataNamed(None, name, None, gender) :
                            name \in {Some(Latin(MAX_NAME_LEN)),
                                      Some(Cyrillic(MAX_NAME_LEN))},
                            gender \in {None, Some("m"), Some("x")}},
     locations |-> {Location(1, Latin(5), country, city, 10) :
                        country \in {Latin(MAX_COUNTRY_LEN), Latin(MAX_COUNTRY_LEN + 1),
                                     Cyrillic(MAX_COUNTRY_LEN \div 2)},
                        city \in {Latin(MAX_CITY_LEN), Latin(MAX_CITY_LEN + 1),
                                  Cyrillic(MAX_CITY_LEN)}},
     location_ids |-> {1},
     location_data |-> {LocationData(None, country, city, None) :
                            country \in {None, Some(Cyrillic(MAX_COUNTRY_LEN \div 2 + 1))},
                            city \in {None, Some(Latin(MAX_CITY_LEN)),
                                      Some(Latin(MAX_CITY_LEN + 1))}},
     visits |-> {Visit(id, 1, 1, 1, mark) :
                     id \in VisitIds, mark \in {0, MAX_MARK, MAX_MARK + 1}},
     visit_ids |-> VisitIds,
     visit_data |-> {VisitData(None, None, None, mark) :
                         mark \in {None, Some(MAX_MARK), Some(MAX_MARK + 1)}}]
    @@ NoneRefused

NextText == NextWith(CallersText)

SpecText == Init /\ [][NextText]_vars

---------------------------------------------------------------------------
(* What the claims speak of.                                               *)

UserIndexes == 0 .. Len(users) - 1
LocationIndexes == 0 .. Len(locations) - 1
VisitIndexes == 0 .. Len(visits) - 1
UserBucket(user_index) == Bucket(At(users, user_index))
LocationBucket(location_index) == Bucket(At(locations, location_index))
VisitIndexesIn(bucket) == {bucket[k][1] : k \in 1 .. Len(bucket)}
VisitsOfUser(user_index) ==
    {vi \in VisitIndexes : id_to_index(At(visits, vi).user) = user_index}
VisitsOfLocation(location_index) ==
    {vi \in VisitIndexes : id_to_index(At(visits, vi).location) = location_index}
Called(op, res) == ret.op = op /\ ret.res = res

(* C1: the visit ids in a person's bucket are exactly the visits of the    *)
(* table whose current person is that person, and the visit ids in a       *)
(* place's bucket exactly the visits whose current place is that place.    *)
C1_IndexConsistency ==
    /\ \A ui \in UserIndexes : VisitIndexesIn(UserBucket(ui)) = VisitsOfUser(ui)
    /\ \A li \in LocationIndexes :
           VisitIndexesIn(LocationBucket(li)) = VisitsOfLocation(li)

(* A patch has just moved a visit: both visits are now with the second     *)
(* user, at different places, and the first user's bucket is empty.        *)
C1_Witness ==
    /\ Called("update_visit", "Ok")
    /\ Len(visits) = 2
    /\ \A vi \in VisitIndexes : At(visits, vi).user = 2
    /\ At(visits, 0).location # At(visits, 1).location
    /\ UserBucket(0) = <<>>

(* C2: every visit of the table has exactly one entry over all person      *)
(* buckets and exactly one entry over all place buckets.                   *)
EntriesOf(vi, table) ==
    {<<i, k>> \in (1 .. Len(table)) \X (1 .. MaxVisitId) :
        k <= Len(Bucket(table[i])) /\ Bucket(table[i])[k][1] = vi}
C2_ExactlyOneEntry ==
    \A vi \in VisitIndexes :
        /\ Cardinality(EntriesOf(vi, users)) = 1
        /\ Cardinality(EntriesOf(vi, locations)) = 1

(* A patch has just moved the first visit to the place of the second: the  *)
(* second place holds both, the first visit last, and the first place none.*)
C2_Witness ==
    /\ Called("update_visit", "Ok")
    /\ Len(visits) = 2
    /\ Len(locations) = 2
    /\ Len(LocationBucket(1)) = 2
    /\ LocationBucket(1)[2][1] = 0
    /\ LocationBucket(0) = <<>>

(* C3: list_person_visits without filters is in non-decreasing visited_at  *)
(* order, and every person bucket is sorted by the current visited_at of   *)
(* the visits it names.                                                    *)
NoUserVisitsFilter ==
    [from_date |-> None, to_date |-> None, country |-> None, to_distance |-> None]
NonDecreasing(seq, Key(_)) ==
    \A i, j \in 1 .. Len(seq) : i < j => Key(seq[i]) <= Key(seq[j])
C3_PersonVisitsOrdered ==
    \A ui \in UserIndexes :
        LET listed == Unwrap(get_user_visits(Self, ui + 1, NoUserVisitsFilter).val)
            VisitedAt(entry) == entry.visited_at
            CurrentVisitedAt(pair) == At(visits, pair[1]).visited_at
        IN  /\ NonDecreasing(listed, VisitedAt)
            /\ NonDecreasing(UserBucket(ui), CurrentVisitedAt)

(* A patch of visited_at has just moved the first visit behind the second  *)
(* in their common person's bucket.                                        *)
C3_Witness ==
    /\ Called("update_visit", "Ok")
    /\ Len(visits) = 2
    /\ SeqMap(UserBucket(0), LAMBDA pair : pair[1]) = <<1, 0>>
    /\ At(visits, 1).visited_at < At(visits, 0).visited_at

(* C4: a patch_visit rejected with InvalidEntity, for a mark above         *)
(* MAX_MARK or for a person or place that does not exist, leaves the visit *)
(* table, every person bucket and every place bucket as they were.         *)
C4_RejectedPatchVisitChangesNothing ==
    [][(ret'.op = "update_visit" /\ ret'.res = "InvalidEntity")
           => UNCHANGED <<now, users, locations, visits>>]_vars

(* A patch naming a person that does not exist has just been refused, on a *)
(* store that holds a visit.                                               *)
C4_Witness ==
    /\ Called("update_visit", "InvalidEntity")
    /\ ret.field = "user"
    /\ Len(visits) >= 1

(* C5: add_visit, under the next free visit id, of a visit whose person or *)
(* place does not exist returns InvalidEntity naming that foreign key, and *)
(* the visit table and every bucket stay as they were.                     *)
Dangling(visit) == visit.user > Len(users) \/ visit.location > Len(locations)
C6_DuplicateAddRejected ==
    [][/\ \A user \in CallersErr.refused_users :
              (user.id <= Len(users) /\ AddUser(user))
                  => /\ ret'.res = "EntryExists"
                     /\ UNCHANGED <<now, users, locations, visits>>
       /\ \A location \in CallersErr.refused_locations :
              (location.id <= Len(locations) /\ AddLocation(location))
                  => /\ ret'.res = "EntryExists"
                     /\ UNCHANGED <<now, users, locations, visits>>
       /\ \A visit \in CallersErr.refused_visits :
              (visit.id <= Len(visits) /\ AddVisit(visit))
                  => /\ ret'.res = "EntryExists"
                     /\ UNCHANGED <<now, users, locations, visits>>]_vars

(* A second add_user under the id of a stored user has just been refused;  *)
(* its gender was not the stored one.                                      *)
C6_Witness ==
    /\ Called("add_user", "EntryExists")
    /\ Len(users) >= 1
    /\ \A ui \in UserIndexes : Entity(At(users, ui)).gender = "m"

(* C7: whenever a thread is inside a read method of the wrapper, the store *)
(* it reads is one between two whole mutations: every visit of the table   *)
(* has one entry in the bucket of its current person and one in the bucket *)
(* of its current place and none in any other bucket, and no bucket names  *)
(* a visit the table does not hold.                                        *)
ReadMethods ==
    {"get_user", "get_location", "get_visit", "get_user_visits", "get_location_avg"}
MutatingMethods ==
    {"add_user", "update_user", "add_location", "update_location", "add_visit",
     "update_visit"}
TimesIn(bucket, vi) == Cardinality({k \in 1 .. Len(bucket) : bucket[k][1] = vi})
InItsBucketsOnly(vi) ==
    /\ \A ui \in UserIndexes :
           TimesIn(UserBucket(ui), vi)
               = IF ui = id_to_index(At(visits, vi).user) THEN 1 ELSE 0
    /\ \A li \in LocationIndexes :
           TimesIn(LocationBucket(li), vi)
               = IF li = id_to_index(At(visits, vi).location) THEN 1 ELSE 0
NoStrayEntry ==
    /\ \A ui \in UserIndexes : VisitIndexesIn(UserBucket(ui)) \subseteq VisitIndexes
    /\ \A li \in LocationIndexes :
           VisitIndexesIn(LocationBucket(li)) \subseteq VisitIndexes
C7_ReadersSeeWholeMutations ==
    \A t \in Threads :
        Inside(t, ReadMethods) => NoStrayEntry /\ \A vi \in VisitIndexes : InItsBucketsOnly(vi)

(* A thread is inside get_user_visits after update_visit has moved the     *)
(* visit to the second user and the second location.                       *)
C7_Witness ==
    /\ Called("update_visit", "Ok")
    /\ \E t \in Threads : Inside(t, {"get_user_visits"})
    /\ Len(visits) = 1
    /\ At(visits, 0).user = 2
    /\ At(visits, 0).location = 2

(* C8: a thread inside a read method holds the lock in shared mode, a      *)
(* thread inside a mutating method holds it in exclusive mode and no other *)
(* thread is inside any method.                                            *)
C8_SharedReadsExclusiveWrites ==
    \A t \in Threads :
        /\ Inside(t, ReadMethods) => t \in lock.readers /\ lock.writer = None
        /\ Inside(t, MutatingMethods) =>
               /\ lock.writer = Some(t)
               /\ lock.readers = {}
               /\ \A u \in Threads \ {t} : pc[u] # "inside"

(* Both threads are inside read methods at once: one in get_location_avg,  *)
(* one in get_visit.                                                       *)
C8_Witness ==
    /\ lock.readers = Threads
    /\ \E t, u \in Threads :
           Inside(t, {"get_location_avg"}) /\ Inside(u, {"get_visit"})

(* C9: for every existing person and every combination of filters,        *)
(* get_user_visits returns, entry for entry, the {mark, visited_at, place} *)
(* of the visits of the table whose current person it is and that pass     *)
(* every supplied filter: visited_at above from_date, visited_at below     *)
(* to_date, the current country of the visit's current place equal to      *)
(* country, its current distance below to_distance.                        *)
UserVisitsFilters ==
    {GetUserVisitsOptions(from_date, to_date, country, to_distance) :
        from_date \in Opt({1}), to_date \in Opt({MaxTime}),
        country \in Opt({"Spain"}), to_distance \in Opt({20, 30})}
CurrentLocation(visit) == Entity(At(locations, id_to_index(visit.location)))
CurrentUser(visit) == Entity(At(users, id_to_index(visit.user)))
ListedVisits(user_id, options) ==
    {vi \in VisitIndexes :
        LET visit == At(visits, vi)
        IN  /\ visit.user = user_id
            /\ IsSome(options.from_date) => visit.visited_at > Unwrap(options.from_date)
            /\ IsSome(options.to_date) => visit.visited_at < Unwrap(options.to_date)
            /\ IsSome(options.country) =>
                   CurrentLocation(visit).country = Unwrap(options.country)
            /\ IsSome(options.to_distance) =>
                   CurrentLocation(visit).distance < Unwrap(options.to_distance)}
UserVisitOf(vi) ==
    [mark |-> At(visits, vi).mark, place |-> CurrentLocation(At(visits, vi)).place,
     visited_at |-> At(visits, vi).visited_at]
C9_PersonVisitsExact ==
    \A ui \in UserIndexes, options \in UserVisitsFilters :
        LET listed == Unwrap(get_user_visits(Self, ui + 1, options).val)
            expected == ListedVisits(ui + 1, options)
        IN  /\ Len(listed) = Cardinality(expected)
            /\ \A vi \in expected :
                   Cardinality({k \in 1 .. Len(listed) : listed[k] = UserVisitOf(vi)})
                       = Cardinality({vj \in expected : UserVisitOf(vj) = UserVisitOf(vi)})

(* The first place has just been patched to Park in Spain; the first user  *)
(* has a visit there and one at the second place, and asking for Spain     *)
(* within distance 20 lists the visit at Park alone.                       *)
C9_Witness ==
    /\ Called("update_location", "Ok")
    /\ Len(visits) = 2
    /\ At(visits, 0).user = 1 /\ At(visits, 0).location = 1
    /\ At(visits, 1).user = 1 /\ At(visits, 1).location = 2
    /\ get_user_visits(Self, 1, GetUserVisitsOptions(None, None, Some("Spain"), Some(20))).val
           = Some(<<[mark |-> 3, place |-> "Park",
                     visited_at |-> At(visits, 0).visited_at]>>)

(* C10: for every existing place and every combination of filters,         *)
(* get_location_avg is the rounded mean of the marks of the visits of the  *)
(* table whose current place it is, whose visited_at is strictly inside    *)
(* the date bounds and whose current person has the given gender and, by   *)
(* the current birth date, the given age; 0 when there is none.            *)
LocationAvgFilters ==
    {GetLocationAvgOptions(from_date, to_date, from_age, to_age, gender) :
        from_date \in Opt({1}), to_date \in Opt({MaxTime}),
        from_age \in Opt({10}), to_age \in Opt({10}), gender \in Opt({"f"})}
YearsAgo(age) == timestamp([year |-> now.year - age, part |-> now.part])
RatedVisits(location_id, options) ==
    {vi \in VisitIndexes :
        LET visit == At(visits, vi)
        IN  /\ visit.location = location_id
            /\ IsSome(options.from_date) => visit.visited_at > Unwrap(options.from_date)
            /\ IsSome(options.to_date) => visit.visited_at < Unwrap(options.to_date)
            /\ IsSome(options.gender) => CurrentUser(visit).gender = Unwrap(options.gender)
            /\ IsSome(options.from_age) =>
                   CurrentUser(visit).birth_date < YearsAgo(Unwrap(options.from_age))
            /\ IsSome(options.to_age) =>
                   CurrentUser(visit).birth_date > YearsAgo(Unwrap(options.to_age))}
RECURSIVE MarkSum(_)
MarkSum(visit_indexes) ==
    IF visit_indexes = {} THEN 0
    ELSE LET vi == CHOOSE x \in visit_indexes : TRUE
         IN  At(visits, vi).mark + MarkSum(visit_indexes \ {vi})
C10_LocationAvgExact ==
    \A li \in LocationIndexes, options \in LocationAvgFilters :
        LET rated == RatedVisits(li + 1, options)
            filtered == FilteredLocationVisits(Self, li, options)
        IN  /\ {id_to_index(filtered[k][1].id) : k \in 1 .. Len(filtered)} = rated
            /\ Len(filtered) = Cardinality(rated)
            /\ get_location_avg(Self, li + 1, options).val
                   = Some(IF rated = {} THEN 0
                          ELSE AvgUnits(MarkSum(rated), Cardinality(rated)))

(* The first user has just been patched and is now a woman born at 105,    *)
(* under 10 years old; both visits are at the first place, the first hers, *)
(* the second the other woman's, and the average over women younger than   *)
(* 10 is her mark 2.                                                       *)
C10_Witness ==
    /\ Called("update_user", "Ok")
    /\ Len(users) = 2
    /\ Entity(At(users, 0)).gender = "f" /\ Entity(At(users, 0)).birth_date = 105
    /\ Entity(At(users, 1)).birth_date = 60
    /\ Len(visits) = 2
    /\ At(visits, 0).user = 1 /\ At(visits, 0).location = 1
    /\ At(visits, 1).user = 2 /\ At(visits, 1).location = 1
    /\ get_location_avg(Self, 1,
                        GetLocationAvgOptions(None, None, None, Some(10), Some("f"))).val
           = Some(200000)

(* C11: whatever the now of the store and the age N, with from_age = N     *)
(* get_location_avg counts only visits of persons born strictly before now *)
(* moved back N years, and with to_age = N only visits of persons born     *)
(* strictly after it: a supplied age is never ignored.                     *)
Ages == {8, 10}
CountedUsers(li, options) ==
    LET filtered == FilteredLocationVisits(Self, li, options)
    IN  {filtered[k][2] : k \in 1 .. Len(filtered)}
C11_AgeFilterAlwaysApplied ==
    \A li \in LocationIndexes, age \in Ages :
        /\ \A user \in CountedUsers(li, GetLocationAvgOptions(None, None, Some(age),
                                                                None, None)) :
               user.birth_date < YearsAgo(age)
        /\ \A user \in CountedUsers(li, GetLocationAvgOptions(None, None, None,
                                                                Some(age), None)) :
               user.birth_date > YearsAgo(age)

(* C12: update_user and update_location under an id that names no entity,  *)
(* the id right after the last one added included, return EntityNotExists  *)
(* and leave the store as it was.                                          *)
C12_PatchOfMissingIsNotFound ==
    [][/\ \A id \in CallersErr.user_ids, user_data \in CallersErr.refused_user_data :
              (id > Len(users) /\ UpdateUser(id, user_data))
                  => /\ ret'.res = "EntityNotExists"
                     /\ UNCHANGED <<now, users, locations, visits>>
       /\ \A id \in CallersErr.location_ids,
             location_data \in CallersErr.refused_location_data :
              (id > Len(locations) /\ UpdateLocation(id, location_data))
                  => /\ ret'.res = "EntityNotExists"
                     /\ UNCHANGED <<now, users, locations, visits>>]_vars

(* C13 as stated: add_user and add_location of a valid entity whose id is  *)
(* not in the table return Ok, whatever was added before.                  *)
C13_AddOfAbsentIdSucceeds ==
    [][/\ \A user \in CallersErr.users \cup CallersErr.refused_users :
              (ret'.op = "add_user" /\ user.id > Len(users) /\ ValidUser(user) = ""
               /\ AddUser(user))
                  => ret'.res = "Ok"
       /\ \A location \in CallersErr.locations \cup CallersErr.refused_locations :
              (ret'.op = "add_location" /\ location.id > Len(locations)
               /\ ValidLocation(location) = "" /\ AddLocation(location))
                  => ret'.res = "Ok"]_vars

(* C13 as the code has it: add_user and add_location have four outcomes.   *)
(* An id in the table gives EntryExists, an id beyond the next free one    *)
(* UnexpectedIndex, an invalid entity under the next free id InvalidEntity *)
(* and a valid one Ok; only Ok changes the store.                          *)
AddOutcome(id, len, field) ==
    IF id <= len THEN "EntryExists"
    ELSE IF id # len + 1 THEN "UnexpectedIndex"
    ELSE IF field # "" THEN "InvalidEntity"
    ELSE "Ok"
C13_AddHasFourOutcomes ==
    [][/\ \A user \in CallersErr.users \cup CallersErr.refused_users :
              (ret'.op = "add_user" /\ AddUser(user))
                  => /\ ret'.res = AddOutcome(user.id, Len(users), ValidUser(user))
                     /\ ret'.res # "Ok" => UNCHANGED <<now, users, locations, visits>>
       /\ \A location \in CallersErr.locations \cup CallersErr.refused_locations :
              (ret'.op = "add_location" /\ AddLocation(location))
                  => /\ ret'.res = AddOutcome(location.id, Len(locations),
                                              ValidLocation(location))
                     /\ ret'.res # "Ok" => UNCHANGED <<now, users, locations, visits>>]_vars

(* A valid location under id 2 has just been refused with UnexpectedIndex  *)
(* by a store that holds no location.                                      *)
C13_Witness ==
    /\ Called("add_location", "UnexpectedIndex")
    /\ locations = <<>>

(* C14: for each kind, after a patch that returned Ok the stored entity    *)
(* has every field present in the patch at the patch's value and every     *)
(* absent field, and the id, as before the call; a patch with no field     *)
(* present returns Ok and changes nothing.                                 *)
Patched(old, new, data, fields) ==
    /\ new.id = old.id
    /\ \A f \in fields : new[f] = IF IsSome(data[f]) THEN Unwrap(data[f]) ELSE old[f]
EmptyPatch(data, fields) == \A f \in fields : data[f] = None
UserFields == {"email", "first_name", "last_name", "gender", "birth_date"}
LocationFields == {"place", "country", "city", "distance"}
VisitFields == {"location", "user", "visited_at", "mark"}
C14_PatchOverwritesPresentFields ==
    [][/\ \A id \in CallersPatch.user_ids, user_data \in CallersPatch.user_data :
              (ret'.op = "update_user" /\ id <= Len(users) /\ UpdateUser(id, user_data))
                  => /\ ret'.res = "Ok" =>
                            Patched(Entity(users[id]), Entity(users'[id]), user_data,
                                    UserFields)
                     /\ EmptyPatch(user_data, UserFields) =>
                            /\ ret'.res = "Ok"
                            /\ UNCHANGED <<now, users, locations, visits>>
       /\ \A id \in CallersPatch.location_ids,
             location_data \in CallersPatch.location_data :
              (ret'.op = "update_location" /\ id <= Len(locations)
               /\ UpdateLocation(id, location_data))
                  => /\ ret'.res = "Ok" =>
                            Patched(Entity(locations[id]), Entity(locations'[id]),
                                    location_data, LocationFields)
                     /\ EmptyPatch(location_data, LocationFields) =>
                            /\ ret'.res = "Ok"
                            /\ UNCHANGED <<now, users, locations, visits>>
       /\ \A id \in CallersPatch.visit_ids, visit_data \in CallersPatch.visit_data :
              (ret'.op = "update_visit" /\ id <= Len(visits) /\ UpdateVisit(id, visit_data))
                  => /\ ret'.res = "Ok" =>
                            Patched(visits[id], visits'[id], visit_data, VisitFields)
                     /\ EmptyPatch(visit_data, VisitFields) =>
                            /\ ret'.res = "Ok"
                            /\ UNCHANGED <<now, users, locations, visits>>]_vars

(* The location patched first in place and city has just been patched in   *)
(* country and distance: it holds the four new values under its id.        *)
C14_Witness ==
    /\ Called("update_location", "Ok")
    /\ Len(locations) >= 1
    /\ Entity(At(locations, 0)) = Location(1, "Park", "Spain", "Madrid", 30)

(* C15: an update_user or update_location whose patched entity fails       *)
(* validation returns InvalidEntity and the stored entity, with the rest   *)
(* of the store, is as before the call: the valid fields of the same patch *)
(* are not written either.                                                 *)
C15_InvalidPatchWritesNothing ==
    [][/\ \A id \in CallersPatch.user_ids, user_data \in CallersPatch.user_data :
              (ret'.op = "update_user" /\ id <= Len(users)
               /\ ValidUser(PatchUser(Entity(users[id]), user_data)) # ""
               /\ UpdateUser(id, user_data))
                  => /\ ret'.res = "InvalidEntity"
                     /\ UNCHANGED <<now, users, locations, visits>>
       /\ \A id \in CallersPatch.location_ids,
             location_data \in CallersPatch.location_data :
              (ret'.op = "update_location" /\ id <= Len(locations)
               /\ ValidLocation(PatchLocation(Entity(locations[id]), location_data)) # ""
               /\ UpdateLocation(id, location_data))
                  => /\ ret'.res = "InvalidEntity"
                     /\ UNCHANGED <<now, users, locations, visits>>]_vars

(* A patch with gender x and birth date 75 has just been refused for its   *)
(* gender, and the user still has the birth date of an earlier patch.      *)
C15_Witness ==
    /\ Called("update_user", "InvalidEntity")
    /\ ret.field = "gender"
    /\ Len(users) >= 1
    /\ Entity(At(users, 0)).birth_date = 105

C18_NotFoundOnlyForMissing ==
    /\ \A id \in 1 .. MaxUserId + 1, options \in UserVisitsFilters :
           LET got == get_user_visits(Self, id, options)
           IN  /\ got.res = "EntityNotExists" <=> id > Len(users)
               /\ got.res \in {"Ok", "EntityNotExists"}
               /\ (id <= Len(users) /\ ListedVisits(id, options) = {})
                      => got = [res |-> "Ok", val |-> Some(<<>>)]
    /\ \A id \in 1 .. MaxLocationId + 1, options \in LocationAvgFilters :
           LET got == get_location_avg(Self, id, options)
           IN  /\ got.res = "EntityNotExists" <=> id > Len(locations)
               /\ got.res \in {"Ok", "EntityNotExists"}

(* The second user has no visit and the first one visit, at time 1: the    *)
(* listing of the second is empty, and so is the listing of the first      *)
(* after time 1.                                                           *)
C18_Witness ==
    /\ Len(users) = 2
    /\ UserBucket(1) = <<>>
    /\ Len(UserBucket(0)) = 1
    /\ At(visits, 0).visited_at = 1
    /\ get_user_visits(Self, 2, NoUserVisitsFilter) = [res |-> "Ok", val |-> Some(<<>>)]
    /\ get_user_visits(Self, 1, GetUserVisitsOptions(Some(1), None, None, None))
           = [res |-> "Ok", val |-> Some(<<>>)]

(* C19: for each kind, get returns EntityNotExists for an id until an add  *)
(* under that id returns Ok; from then on it returns the added entity, and *)
(* what get returns changes only by a patch of that id that returned Ok,   *)
(* to the entity as patched.                                               *)
SelfNext == [now |-> now', users |-> users', locations |-> locations', visits |-> visits']
Missing == [res |-> "EntityNotExists", val |-> None]
GetFollows(before, after, add_op, update_op, added, patches, fields) ==
    after # before =>
        \/ /\ ret'.op = add_op /\ ret'.res = "Ok"
           /\ before = Missing
           /\ after.res = "Ok" /\ after.val \in added
        \/ /\ ret'.op = update_op /\ ret'.res = "Ok"
           /\ before.res = "Ok" /\ after.res = "Ok"
           /\ \E data \in patches : Patched(before.val, after.val, data, fields)
C19_GetReturnsLastWritten ==
    /\ \A id \in 1 .. 3 :
           /\ get_user(Self, id) = Missing
           /\ get_location(Self, id) = Missing
           /\ get_visit(Self, id) = Missing
    /\ [][/\ \A id \in 1 .. 3 :
                 /\ GetFollows(get_user(Self, id), get_user(SelfNext, id),
                               "add_user", "update_user",
                               {u \in CallersPatch.users : u.id = id},
                               CallersPatch.user_data, UserFields)
                 /\ GetFollows(get_location(Self, id), get_location(SelfNext, id),
                               "add_location", "update_location",
                               {l \in CallersPatch.locations : l.id = id},
                               CallersPatch.location_data, LocationFields)
                 /\ GetFollows(get_visit(Self, id), get_visit(SelfNext, id),
                               "add_visit", "update_visit",
                               {v \in CallersPatch.visits : v.id = id},
                               CallersPatch.visit_data, VisitFields)
          /\ \A user \in CallersPatch.users :
                 (ret'.op = "add_user" /\ ret'.res = "Ok" /\ AddUser(user))
                     => get_user(SelfNext, user.id) = [res |-> "Ok", val |-> user]
          /\ \A location \in CallersPatch.locations :
                 (ret'.op = "add_location" /\ ret'.res = "Ok" /\ AddLocation(location))
                     => get_location(SelfNext, location.id)
                            = [res |-> "Ok", val |-> location]
          /\ \A visit \in CallersPatch.visits :
                 (ret'.op = "add_visit" /\ ret'.res = "Ok" /\ AddVisit(visit))
                     => get_visit(SelfNext, visit.id) = [res |-> "Ok", val |-> visit]]_vars

(* The visit, patched once in location and time and once in user and mark, *)
(* is returned by get_visit with the four patched values; no third visit   *)
(* was ever added and get_visit(3) finds none.                             *)
C19_Witness ==
    /\ Called("update_visit", "Ok")
    /\ get_visit(Self, 1) = [res |-> "Ok", val |-> Visit(1, 2, 2, MaxTime, 4)]
    /\ get_visit(Self, 3) = Missing

(* C20: a method of the wrapper that returns EntryExists, EntityNotExists  *)
(* or InvalidEntity leaves the store as it was and the lock free and not   *)
(* poisoned; what later calls return and reach depends on the store and    *)
(* the lock alone, so they go as if the refused call had not been made.    *)
Rejections == {"EntryExists", "EntityNotExists", "InvalidEntity"}
C20_RejectedCallLeavesNoTrace ==
    [][\A t \in Threads :
           (pc[t] = "inside" /\ pc'[t] # "inside" /\ ret'.res \in Rejections)
               => /\ UNCHANGED <<now, users, locations, visits>>
                  /\ lock' = [readers |-> lock.readers \ {t}, writer |-> None,
                              poisoned |-> FALSE]
                  /\ pc'[t] = "idle"]_vars

(* The add of a user under a taken id has just been refused; the stored    *)
(* user, patched before to gender f, is as it was, both threads are idle   *)
(* and the lock is free.                                                   *)
C20_Witness ==
    /\ Called("add_user", "EntryExists")
    /\ Len(users) >= 1
    /\ Entity(At(users, 0)).gender = "f"
    /\ \A t \in Threads : pc[t] = "idle"
    /\ lock = Unlocked

(* C21: once the lock is poisoned it stays poisoned, and every call of a   *)
(* method of the wrapper, read or write, returns LockError with the store  *)
(* untouched and no thread let into the store.                             *)
C21_PoisonedLockIsFinal ==
    [][lock.poisoned =>
           /\ lock' = lock
           /\ UNCHANGED <<now, users, locations, visits, pc, job>>
           /\ ret'.res = "LockError"]_vars

(* A writer has panicked inside update_user and a get_user called after    *)
(* it has returned LockError, although the user it asks for is stored.     *)
C21_Witness ==
    /\ lock.poisoned
    /\ \E t \in Threads : pc[t] = "panicked"
    /\ ret.op = "get_user" /\ ret.res = "LockError"
    /\ Len(users) >= 1

(* C22: load_data calls add_visit only when no location and no user of the *)
(* dataset is left to add, and no visit of a dataset whose visits name     *)
(* only users and locations of the dataset is refused for a dangling user  *)
(* or location.                                                            *)
IdsOf(entities) == {entities[k].id : k \in 1 .. Len(entities)}
Closed(data) ==
    \A k \in 1 .. Len(data.visits) :
        /\ data.visits[k].user \in IdsOf(data.users)
        /\ data.visits[k].location \in IdsOf(data.locations)
C22_VisitsLoadedLast ==
    [][\A t \in Threads :
           (pc[t] = "loading" /\ ret'.op = "add_visit")
               => /\ Unwrap(job[t]).rest.locations = <<>>
                  /\ Unwrap(job[t]).rest.users = <<>>
                  /\ Closed(Unwrap(job[t]).data)
                         => ~(ret'.res = "InvalidEntity"
                              /\ ret'.field \in {"user", "location"})]_vars

(* A dataset of two locations, two users and two visits, the second visit  *)
(* of the second user at the second location, is loaded to the end.        *)
C22_Witness ==
    /\ pc["t1"] = "loaded"
    /\ Len(visits) = 2
    /\ At(visits, 1).user = 2 /\ At(visits, 1).location = 2

(* C23: a create or patch request whose body holds a null for any field is *)
(* answered 400 with no call on the store and the store as it was; only a  *)
(* body that holds a null is rejected as a null value, so a body that      *)
(* leaves a field out is not.                                              *)
PostOps ==
    {"add_user", "update_user", "add_location", "update_location", "add_visit",
     "update_visit"}
NullIn(body) == \E f \in DOMAIN body.map : body.map[f] = JNull
C23_NullIsRejectedBeforeTheStore ==
    [][ret'.op \in PostOps =>
           /\ NullIn(ret'.body) =>
                  /\ ret'.status = "BadRequest"
                  /\ ~ret'.called
                  /\ UNCHANGED <<now, users, locations, visits, lock>>
           /\ ret'.error = NullValue => NullIn(ret'.body)]_vars

(* A patch of an existing visit with a null for user is rejected.          *)
C23_Witness ==
    /\ ret.op = "update_visit" /\ ret.id = 1
    /\ Len(visits) >= 1
    /\ "user" \in DOMAIN ret.body.map /\ ret.body.map["user"] = JNull
    /\ ret.error = NullValue

(* C24: an error of the store is answered 400 for EntryExists and          *)
(* InvalidEntity, 404 for EntityNotExists and 500 for every other one; it  *)
(* is never answered 200.                                                  *)
C24_StatusOfStoreErrors ==
    (ret.called /\ ret.res \notin {"Ok", "Panic"})
        => /\ ret.status =
                  CASE ret.res \in {"EntryExists", "InvalidEntity"} -> "BadRequest"
                    [] ret.res = "EntityNotExists" -> "NotFound"
                    [] OTHER -> "InternalServerError"
           /\ ret.status # "Ok"

(* A get of a missing visit is answered 404.                               *)
C24_Witness ==
    /\ ret.op = "get_visit"
    /\ ret.called
    /\ ret.res = "EntityNotExists"
    /\ ret.status = "NotFound"

(* C25: every add and every update of an existing entity is refused by the *)
(* validator exactly when a constraint fails, the lengths counted in       *)
(* characters: email at most 100, first and last name at most 500, gender  *)
(* f or m; country and city at most 50; mark at most 5.                    *)
Chars(bytes) == Cardinality({i \in 1 .. Len(bytes) : bytes[i] \notin 128 .. 191})
UserIsValid(user) ==
    /\ Chars(user.email) <= 100
    /\ Chars(user.first_name) <= 500
    /\ Chars(user.last_name) <= 500
    /\ user.gender \in {"f", "m"}
LocationIsValid(location) ==
    /\ Chars(location.country) <= 50
    /\ Chars(location.city) <= 50
VisitIsValid(visit) == visit.mark <= 5
RefusedByValidator(fields) == ret'.res = "InvalidEntity" /\ ret'.field \in fields
C25_ValidatedInCharacters ==
    [][/\ \A user \in CallersText.users :
              (ret'.op = "add_user" /\ user.id = Len(users) + 1 /\ AddUser(user))
                  => (ret'.res = "Ok" <=> UserIsValid(user))
       /\ \A id \in CallersText.user_ids, user_data \in CallersText.user_data :
              (ret'.op = "update_user" /\ id <= Len(users) /\ UpdateUser(id, user_data))
                  => (ret'.res = "Ok"
                          <=> UserIsValid(PatchUser(Entity(users[id]), user_data)))
       /\ \A location \in CallersText.locations :
              (ret'.op = "add_location" /\ location.id = Len(locations) + 1
               /\ AddLocation(location))
                  => (ret'.res = "Ok" <=> LocationIsValid(location))
       /\ \A id \in CallersText.location_ids,
             location_data \in CallersText.location_data :
              (ret'.op = "update_location" /\ id <= Len(locations)
               /\ UpdateLocation(id, location_data))
                  => (ret'.res = "Ok"
                          <=> LocationIsValid(PatchLocation(Entity(locations[id]),
                                                            location_data)))
       /\ \A visit \in CallersText.visits :
              (ret'.op = "add_visit" /\ visit.id = Len(visits) + 1 /\ AddVisit(visit))
                  => (RefusedByValidator({"mark"}) <=> ~VisitIsValid(visit))
       /\ \A id \in CallersText.visit_ids, visit_data \in CallersText.visit_data :
              (ret'.op = "update_visit" /\ id <= Len(visits)
               /\ UpdateVisit(id, visit_data))
                  => (RefusedByValidator({"mark"})
                          <=> ~VisitIsValid(PatchVisit(visits[id], visit_data)))]_vars

(* C26: no operation of the store removes an entity.  No table gets        *)
(* shorter, and an id for which get_user, get_location or get_visit        *)
(* returns an entity before a step has one after it.                       *)
C26_EntitiesAreNeverRemoved ==
    [][/\ Len(users') >= Len(users)
       /\ Len(locations') >= Len(locations)
       /\ Len(visits') >= Len(visits)
       /\ \A id \in 1 .. MaxUserId + 1 :
              get_user(Self, id).res = "Ok" => get_user(SelfNext, id).res = "Ok"
       /\ \A id \in 1 .. MaxLocationId + 1 :
              get_location(Self, id).res = "Ok" => get_location(SelfNext, id).res = "Ok"
       /\ \A id \in 1 .. MaxVisitId + 1 :
              get_visit(Self, id).res = "Ok" => get_visit(SelfNext, id).res = "Ok"]_vars

(* The first visit of a full store has just been moved to the second user  *)
(* and location by update_visit, and all six entities are there.           *)
C26_Witness ==
    /\ ret.op = "update_visit" /\ ret.res = "Ok"
    /\ Len(users) = MaxUserId /\ Len(locations) = MaxLocationId
    /\ Len(visits) = MaxVisitId
    /\ get_visit(Self, 1).val.user = 2 /\ get_visit(Self, 1).val.location = 2
    /\ get_visit(Self, 2).res = "Ok"

(* C27: the sum of the marks does not wrap.  The average over n matching   *)
(* visits that all have mark m is exactly m, also when n * m is more than  *)
(* 255 (99 visits of mark 5 in the test).                                  *)
C27_SumDoesNotWrap ==
    (ret.op = "get_location_avg" /\ ret.options.from_date = None /\ visits # <<>>)
        => /\ ret.res = "Ok"
           /\ ret.val = Some(At(visits, 0).mark * 100000)

(* The average of 99 visits of mark 5 has been asked for.                  *)
C27_Witness ==
    /\ ret.op = "get_location_avg" /\ ret.options.from_date = None
    /\ Len(visits) = 99
    /\ At(visits, 98).mark = 5
    /\ ret.val = Some(500000)

(* C28 as stated: add_visit validates the visit, resolves both foreign     *)
(* keys, and then writes the visit table first, the person index second    *)
(* and the place index third.                                              *)
InUserBucket(us, visit) ==
    /\ visit.user <= Len(us)
    /\ id_to_index(visit.id) \in VisitIndexesIn(Bucket(us[visit.user]))
InLocationBucket(ls, visit) ==
    /\ visit.location <= Len(ls)
    /\ id_to_index(visit.id) \in VisitIndexesIn(Bucket(ls[visit.location]))
InTable(vs, visit) == visit.id <= Len(vs) /\ vs[visit.id] = visit
ChecksComeFirst(t) ==
    LET visit == Unwrap(job[t]).arg
        dangling == visit.user > Len(users) \/ visit.location > Len(locations)
    IN  (Unwrap(job[t]).step = 0 /\ visit.id = Len(visits) + 1)
            => /\ ValidVisit(visit) # ""
                   => /\ ret'.res = "InvalidEntity" /\ ret'.field = "mark"
                      /\ UNCHANGED <<users, locations, visits>>
               /\ (ValidVisit(visit) = "" /\ dangling)
                   => /\ ret'.res # "Ok"
                      /\ UNCHANGED <<users, locations, visits>>
C29_UntouchedBucketsStay ==
    [][\A id \in CallersFrame.visit_ids, visit_data \in CallersFrame.visit_data :
           (ret'.op = "update_visit" /\ ret'.res = "Ok" /\ id <= Len(visits)
            /\ visits'[id] = PatchVisit(visits[id], visit_data)
            /\ UpdateVisit(id, visit_data))
               => LET original == visits[id]
                      updated == PatchVisit(original, visit_data)
                  IN  /\ (/\ updated.user = original.user
                          /\ updated.location = original.location)
                             => \A li \in LocationIndexes :
                                    Bucket(At(locations', li)) = LocationBucket(li)
                      /\ (/\ updated.user = original.user
                          /\ updated.location = original.location
                          /\ updated.visited_at = original.visited_at)
                             => \A ui \in UserIndexes :
                                    Bucket(At(users', ui)) = UserBucket(ui)]_vars

(* Two visits of user 1 at location 1: the first one has been given mark 4 *)
(* and a later time than the second, so the person bucket lists it second  *)
(* while the place bucket still lists it first.                            *)
C29_Witness ==
    /\ ret.op = "update_visit" /\ ret.res = "Ok"
    /\ Len(visits) = 2
    /\ At(visits, 0).mark = 4
    /\ At(visits, 0).visited_at > At(visits, 1).visited_at
    /\ VisitIndexesIn(UserBucket(0)) = {0, 1}
    /\ UserBucket(0)[1][1] = 1
    /\ LocationBucket(0)[1][1] = 0 /\ Len(LocationBucket(0)) = 2

UserFieldFails(user, field) ==
    \/ field = "email" /\ StrLen(user.email) > MAX_EMAIL_LEN
    \/ field = "first_name" /\ StrLen(user.first_name) > MAX_NAME_LEN
    \/ field = "last_name" /\ StrLen(user.last_name) > MAX_NAME_LEN
    \/ field = "gender" /\ user.gender \notin ALLOWED_GENDER
LocationFieldFails(location, field) ==
    \/ field = "country" /\ StrLen(location.country) > MAX_COUNTRY_LEN
    \/ field = "city" /\ StrLen(location.city) > MAX_CITY_LEN
VisitFieldFails(visit, field) ==
    \/ field = "mark" /\ visit.mark > MAX_MARK
    \/ field = "user" /\ visit.user > Len(users)
    \/ field = "location" /\ visit.location > Len(locations)
C31_InvalidNamesTheFailingField ==
    [][ret'.res = "InvalidEntity" =>
           /\ \A user \in CallersText.users :
                  (ret'.op = "add_user" /\ AddUser(user))
                      => UserFieldFails(user, ret'.field)
           /\ \A id \in CallersText.user_ids, user_data \in CallersText.user_data :
                  (ret'.op = "update_user" /\ id <= Len(users)
                   /\ UpdateUser(id, user_data))
                      => UserFieldFails(PatchUser(Entity(users[id]), user_data),
                                        ret'.field)
           /\ \A location \in CallersText.locations :
                  (ret'.op = "add_location" /\ AddLocation(location))
                      => LocationFieldFails(location, ret'.field)
           /\ \A id \in CallersText.location_ids,
                 location_data \in CallersText.location_data :
                  (ret'.op = "update_location" /\ id <= Len(locations)
                   /\ UpdateLocation(id, location_data))
                      => LocationFieldFails(
                             PatchLocation(Entity(locations[id]), location_data),
                             ret'.field)
           /\ \A visit \in CallersText.visits :
                  (ret'.op = "add_visit" /\ AddVisit(visit))
                      => VisitFieldFails(visit, ret'.field)
           /\ \A id \in CallersText.visit_ids, visit_data \in CallersText.visit_data :
                  (ret'.op = "update_visit" /\ id <= Len(visits)
                   /\ UpdateVisit(id, visit_data))
                      => VisitFieldFails(PatchVisit(visits[id], visit_data),
                                         ret'.field)]_vars

(* C32: under fair scheduling every call of a method of StoreWrapper       *)
(* returns to its caller: a thread that is inside a method is back at its  *)
(* caller, idle, some time later.                                          *)
C32_EveryCallReturns ==
    \A t \in Threads : (pc[t] = "inside") ~> (pc[t] = "idle")

C34_FilesInNumericOrder ==
    \A t \in Threads :
        pc[t] \in {"loading", "loaded", "load_failed"}
            => LET archive == Unwrap(job[t]).archive
                   names == Unwrap(job[t]).names
                   wanted == {archive[k] : k \in {i \in DOMAIN archive :
                                  /\ archive[i].prefix = "users_"
                                  /\ archive[i].sufix = JSON_SUFIX}}
               IN  /\ \A i, j \in DOMAIN names :
                          i < j => ParseIndex(names[i].digits) < ParseIndex(names[j].digits)
                   /\ {names[k] : k \in DOMAIN names} = wanted
                   /\ pc[t] # "load_failed"
                   /\ pc[t] = "loaded" => Len(users) = Cardinality(wanted)

(* An archive that holds users_10 before users_2 before users_1 has been   *)
(* loaded: three users.                                                    *)
C34_Witness ==
    /\ pc["t1"] = "loaded"
    /\ Len(users) = 3
    /\ LET archive == Unwrap(job["t1"]).archive
       IN  /\ Len(archive) = 3
           /\ archive[1].digits = <<1, 0>> /\ archive[2].digits = <<2>>

(* C35: the foreign index cached in every bucket entry is current: an      *)
(* entry (v, l) of a person bucket has l = the index of the place visit v  *)
(* has now, and an entry (v, u) of a place bucket has u = the index of the *)
(* person visit v has now.                                                 *)
C35_CachedIndexIsCurrent ==
    /\ \A ui \in UserIndexes : \A k \in 1 .. Len(UserBucket(ui)) :
           LET pair == UserBucket(ui)[k]
           IN  /\ pair[1] \in VisitIndexes
               /\ pair[2] = id_to_index(At(visits, pair[1]).location)
    /\ \A li \in LocationIndexes : \A k \in 1 .. Len(LocationBucket(li)) :
           LET pair == LocationBucket(li)[k]
           IN  /\ pair[1] \in VisitIndexes
               /\ pair[2] = id_to_index(At(visits, pair[1]).user)

(* A patch has just changed a visit: both visits are with the first user,  *)
(* the first at the second place and the second at the first place, so the *)
(* entries of the user's bucket cache two different places, and the        *)
(* entry of the second place caches the first user.                        *)
C35_Witness ==
    /\ Called("update_visit", "Ok")
    /\ Len(visits) = 2
    /\ \A vi \in VisitIndexes : At(visits, vi).user = 1
    /\ At(visits, 0).location = 2
    /\ At(visits, 1).location = 1
    /\ LocationBucket(1) = <<(<<0, 0>>)>>
    /\ {UserBucket(0)[k] : k \in 1 .. Len(UserBucket(0))} = {<<0, 1>>, <<1, 0>>}

(* C36: a visit inserted into a person bucket by add_visit or by a patch   *)
(* stands after every entry that is not later and immediately before the   *)
(* first entry that is strictly later; the other entries keep their order; *)
(* and the listing of the person's visits is in the order of the bucket,   *)
(* so visits of equal visited_at are listed in the order of their last     *)
(* insertion.                                                              *)
TimeOf(vs, pair) == At(vs, pair[1]).visited_at
JustInserted(vi) ==
    \/ Len(visits) <= vi
    \/ /\ vi < Len(visits)
       /\ UserBucketChanges(At(visits, vi), At(visits', vi))
InsertedAfterEquals ==
    (ret'.res = "Ok" /\ ret'.op \in {"add_visit", "update_visit"})
        => \A vi \in 0 .. Len(visits') - 1 :
               JustInserted(vi)
                   => LET ui == id_to_index(At(visits', vi).user)
                          bucket == Bucket(At(users', ui))
                          Other(pair) == pair[1] # vi
                      IN  /\ \E k \in 1 .. Len(bucket) :
                                 /\ bucket[k][1] = vi
                                 /\ \A j \in 1 .. k - 1 :
                                        TimeOf(visits', bucket[j]) <= TimeOf(visits', bucket[k])
                                 /\ \A j \in k + 1 .. Len(bucket) :
                                        TimeOf(visits', bucket[k]) < TimeOf(visits', bucket[j])
                          /\ SeqFilter(bucket, Other) = SeqFilter(UserBucket(ui), Other)
ListedInBucketOrder ==
    (ret.op = "get_user_visits" /\ ret.res = "Ok")
        => LET bucket == UserBucket(id_to_index(ret.id))
               listed == Unwrap(ret.val)
           IN  /\ Len(listed) = Len(bucket)
               /\ \A k \in 1 .. Len(bucket) :
                      /\ listed[k].mark = At(visits, bucket[k][1]).mark
                      /\ listed[k].visited_at = TimeOf(visits, bucket[k])
C36_InsertedAfterEquals == [][InsertedAfterEquals]_vars /\ []ListedInBucketOrder

(* Three visits of one visited_at were added and the first one was then    *)
(* patched to that same time from another: it is listed last.              *)
C36_Witness ==
    /\ ret.op = "get_user_visits"
    /\ ret.res = "Ok"
    /\ Len(visits) = 3
    /\ \A vi \in VisitIndexes : At(visits, vi).visited_at = 2
    /\ UserBucket(0) = <<(<<1, 0>>), (<<2, 0>>), (<<0, 0>>)>>
    /\ Len(Unwrap(ret.val)) = 3
    /\ Unwrap(ret.val)[3].mark = 1

(* C37: a successful patch of a user or of a location changes the field    *)
(* values of that one entity and nothing else: its id and its bucket stay  *)
(* (the same entries in the same order), and every other user, location,   *)
(* visit and bucket is as before.                                          *)
SameButFields(old, new) ==
    /\ Len(new) = Len(old)
    /\ \A k \in 1 .. Len(old) :
           /\ Bucket(new[k]) = Bucket(old[k])
           /\ Entity(new[k]).id = Entity(old[k]).id
    /\ Cardinality({k \in 1 .. Len(old) : new[k] # old[k]}) <= 1
PatchedFieldsOnly ==
    /\ (ret'.op = "update_user" /\ ret'.res = "Ok")
           => /\ SameButFields(users, users')
              /\ locations' = locations
              /\ visits' = visits
              /\ now' = now
    /\ (ret'.op = "update_location" /\ ret'.res = "Ok")
           => /\ SameButFields(locations, locations')
              /\ users' = users
              /\ visits' = visits
              /\ now' = now
C37_PatchChangesFieldsOnly == [][PatchedFieldsOnly]_vars

(* The first location has just been patched to another place: it still    *)
(* holds both visits, and the second location is as it was added.          *)
C37_Witness ==
    /\ Called("update_location", "Ok")
    /\ Len(locations) = 2
    /\ Entity(At(locations, 0)).place = "Park"
    /\ Entity(At(locations, 1)).place = "Musei"
    /\ Len(LocationBucket(0)) = 2
    /\ Len(visits) = 2

(* C40: a patch is idempotent, for every kind: the same patch applied to   *)
(* the same id a second time leaves the store, the order of every bucket   *)
(* included, as the first time left it and returns the same result.        *)
SecondAsFirst(first, second) ==
    /\ second.store = first.store
    /\ second.result = first.result
C40_PatchTwiceIsPatchOnce ==
    /\ \A id \in 1 .. MaxUserId + 1, user_data \in CallersFields.user_data :
           LET first == update_user(Self, id, user_data)
           IN  SecondAsFirst(first, update_user(first.store, id, user_data))
    /\ \A id \in 1 .. MaxLocationId + 1, location_data \in CallersFields.location_data :
           LET first == update_location(Self, id, location_data)
           IN  SecondAsFirst(first, update_location(first.store, id, location_data))
    /\ \A id \in 1 .. MaxVisitId + 1, visit_data \in CallersFields.visit_data :
           LET first == update_visit(Self, id, visit_data)
           IN  SecondAsFirst(first, update_visit(first.store, id, visit_data))

(* A patch has just put the first visit behind the second in the bucket of *)
(* the first user, both at one time: the patch of the time of the first    *)
(* visit to that time, sent again, returns Ok and moves nothing, and a     *)
(* patch of a user to the other gender changes the store once.             *)
C40_Witness ==
    /\ Called("update_visit", "Ok")
    /\ Len(visits) = 2
    /\ At(visits, 0).visited_at = At(visits, 1).visited_at
    /\ Len(UserBucket(0)) = 2
    /\ UserBucket(0)[1][1] = 1
    /\ UserBucket(0)[2][1] = 0
    /\ LET visit_data == VisitData(None, None, Some(At(visits, 0).visited_at), None)
       IN  /\ update_visit(Self, 1, visit_data).result = Ok
           /\ update_visit(Self, 1, visit_data).store = Self
    /\ update_user(Self, 1, UserData(Some("f"), None)).store # Self

(* C38 as stated: no mutating call aborts while it holds the exclusive     *)
(* lock, so the lock is never poisoned, no thread is unwound by a panic    *)
(* and no call returns LockError.                                          *)
C38_WritersNeverPanic ==
    /\ ~lock.poisoned
    /\ \A t \in Threads : pc[t] # "panicked"
    /\ ret.res # "LockError"

(* C39: the ids of each table are the run 1, 2, ... without a gap; an add  *)
(* returns Ok only under the next id, an add under a larger id returns     *)
(* UnexpectedIndex, whether the entity is valid or not, and changes        *)
(* nothing; and a get that returns an entity returns the one of that id.   *)
DenseIds ==
    /\ \A k \in 1 .. Len(users) : Entity(users[k]).id = k
    /\ \A k \in 1 .. Len(locations) : Entity(locations[k]).id = k
    /\ \A k \in 1 .. Len(visits) : visits[k].id = k
    /\ \A id \in 1 .. MaxUserId + 2 :
           /\ get_user(Self, id).res = "Ok" <=> id <= Len(users)
           /\ get_user(Self, id).res = "Ok" => get_user(Self, id).val.id = id
    /\ \A id \in 1 .. MaxLocationId + 2 :
           /\ get_location(Self, id).res = "Ok" <=> id <= Len(locations)
           /\ get_location(Self, id).res = "Ok" => get_location(Self, id).val.id = id
    /\ \A id \in 1 .. MaxVisitId + 2 :
           /\ get_visit(Self, id).res = "Ok" <=> id <= Len(visits)
           /\ get_visit(Self, id).res = "Ok" => get_visit(Self, id).val.id = id
AddedInOrder ==
    /\ (ret'.op = "add_user" /\ ret'.res = "Ok")
           => /\ Len(users') = Len(users) + 1
              /\ Entity(users'[Len(users')]).id = Len(users) + 1
    /\ (ret'.op = "add_location" /\ ret'.res = "Ok")
           => /\ Len(locations') = Len(locations) + 1
              /\ Entity(locations'[Len(locations')]).id = Len(locations) + 1
    /\ (ret'.op = "add_visit" /\ ret'.res = "Ok")
           => /\ Len(visits') = Len(visits) + 1
              /\ visits'[Len(visits')].id = Len(visits) + 1
    /\ \A user \in CallersErr.refused_users :
           (user.id > Len(users) + 1 /\ AddUser(user))
               => /\ ret'.res = "UnexpectedIndex"
                  /\ UNCHANGED <<now, users, locations, visits>>
    /\ \A location \in CallersErr.refused_locations :
           (location.id > Len(locations) + 1 /\ AddLocation(location))
               => /\ ret'.res = "UnexpectedIndex"
                  /\ UNCHANGED <<now, users, locations, visits>>
    /\ \A visit \in CallersErr.refused_visits :
           (visit.id > Len(visits) + 1 /\ AddVisit(visit))
               => /\ ret'.res = "UnexpectedIndex"
                  /\ UNCHANGED <<now, users, locations, visits>>
C39_IdsAreDense == []DenseIds /\ [][AddedInOrder]_vars

(* Two users are stored and an add of a user under id 4 has just been      *)
(* refused with UnexpectedIndex.                                           *)
C39_Witness ==
    /\ Called("add_user", "UnexpectedIndex")
    /\ Len(users) = 2
    /\ get_user(Self, 2).res = "Ok"
    /\ get_user(Self, 2).val.id = 2
    /\ get_user(Self, 3).res = "EntityNotExists"

====
